---- MODULE Spec2Model ----
(***************************************************************************)
(* Branch-aware incremental graph synchronisation of source-atlas          *)
(* (source_atlas/neo4jdb/neo4j_service.py, class Neo4jService).            *)
(*                                                                         *)
(* The persisted property graph is modelled as a set of node records and a *)
(* set of relationship records; every Cypher query the service sends is an *)
(* operator from graph to graph that follows Cypher's semantics (property  *)
(* maps never match a null value, a WHERE after OPTIONAL MATCH filters the *)
(* optional pattern and not the row, MERGE creates only what is missing,   *)
(* apoc.create.* always creates).                                          *)
(*                                                                         *)
(* Facts carry the method's full_name the service reads (method.full_name) *)
(* and all chunks of one batch share project_id and branch, as the comment *)
(* in import_code_chunks requires.  Properties no query reads (name,       *)
(* file_path, content, version, labels, base_version) are left out.        *)
(***************************************************************************)
EXTENDS Integers, Sequences, FiniteSets, TLC

VARIABLES nodes, rels, nextId, mappings, calls, last, pc, job, saved_rels, hist

vars == <<nodes, rels, nextId, mappings, calls, last, pc, job, saved_rels, hist>>

\* ---------------------------------------------------------------- bounds
\* Number of top-level calls explored from an initial graph.
MaxCalls == 1
\* Largest batch_size argument tried (sub-batches of 1..MaxBatchSize chunks).
MaxBatchSize == 2
\* Largest page size tried by the clone (batch_size / rel_batch_size).
MaxPageSize == 2
\* Clones in one behaviour, after the clone that may have failed before it.
MaxClones == 1
\* Calls of the helper methods in one behaviour.
MaxOps == 4

\* ------------------------------------------------------------ vocabulary
NULL == "NULL"
PROJECT == "1"
Branches == {"main", "feat"}
PullRequests == {"pr1"}
RelTypes == {"CALL", "IMPLEMENT", "USE"}

Max(a, b) == IF a >= b THEN a ELSE b
Min(a, b) == IF a <= b THEN a ELSE b

\* ----------------------------------------------------------------- facts
\* Method(...) and CodeChunk(...) of models/domain_models.py, reduced to the
\* fields generate_cypher_from_chunks reads.
MethodFact(name, hash, callsTo, uses) ==
    [full_name |-> name, ast_hash |-> hash, method_calls |-> callsTo,
     used_types |-> uses, inheritance_info |-> {}, annotations |-> {},
     handles_annotation |-> NULL]

ClassFact(cls, hash, ms, impl, uses) ==
    [full_class_name |-> cls, ast_hash |-> hash, methods |-> ms,
     implements |-> impl, used_types |-> uses, annotations |-> {},
     handles_annotation |-> NULL]

\* The sample program of tests/test_relationship_preservation.py:
\* ClassA.methodA calls methodB, ClassB.methodB uses ClassC, ClassC is empty.
ChunkA == ClassFact("A", 1, <<MethodFact("mA", 1, {"mB"}, {})>>, {}, {})
ChunkB(h) == ClassFact("B", 1, <<MethodFact("mB", h, {}, {"C"})>>, {}, {})
ChunkC == ClassFact("C", 1, <<>>, {}, {})
\* A class-level user of ClassC, as UserClass in test_annotation_relationships.py.
ChunkU(h) == ClassFact("U", h, <<>>, {}, {"C"})

\* ----------------------------------------------------------------- graph
\* next is the id the store gives to the next node it creates: ids grow and
\* are not handed out twice, so a replaced node is told from the node it replaces.
EmptyGraph == [nodes |-> {}, rels |-> {}, next |-> 1]

NodeIds(N) == {n.id : n \in N}

NewNode(id, branch, cls, meth, hash, status, pr) ==
    [id |-> id, project_id |-> PROJECT, branch |-> branch,
     class_name |-> cls, method_name |-> meth, ast_hash |-> hash,
     status |-> status, pull_request_id |-> pr]

\* apoc.create.node, k times with the same properties.
AddCopies(G, k, branch, cls, meth, hash, status, pr) ==
    [G EXCEPT !.nodes = @ \cup {NewNode(G.next + i, branch, cls, meth, hash, status, pr)
                                  : i \in 0..(k - 1)},
              !.next = @ + k]

\* Relationships between the same pair with the same type are told apart by
\* "copy" (1..n): Neo4j allows parallel relationships.
RelCount(R, s, t, ty) ==
    Cardinality({r \in R : r.src = s /\ r.tgt = t /\ r.type = ty})

\* apoc.create.relationship / CREATE: always a new relationship.
CreateRel(R, s, t, ty) ==
    R \cup {[src |-> s, tgt |-> t, type |-> ty, copy |-> RelCount(R, s, t, ty) + 1]}

\* MERGE (s)-[:ty]->(t) for a set of bound pairs: created only where missing.
MergeRels(R, pairs, ty) ==
    R \cup {[src |-> p[1], tgt |-> p[2], type |-> ty, copy |-> 1] :
              p \in {q \in pairs : RelCount(R, q[1], q[2], ty) = 0}}

\* DETACH DELETE of a set of nodes.
DetachDelete(G, D) ==
    [G EXCEPT !.nodes = @ \ D,
              !.rels = {r \in @ : r.src \notin NodeIds(D) /\ r.tgt \notin NodeIds(D)}]

\* MATCH (n {class_name, method_name, project_id, branch}); a null in a
\* property map matches nothing.
MatchKey(N, branch, cls, meth) ==
    IF branch = NULL \/ meth = NULL THEN {}
    ELSE {n \in N : n.project_id = PROJECT /\ n.branch = branch
                     /\ n.class_name = cls /\ n.method_name = meth}

\* MATCH (n {class_name, project_id, branch}) WHERE n.method_name IS NULL
MatchClass(N, branch, cls) ==
    IF branch = NULL THEN {}
    ELSE {n \in N : n.project_id = PROJECT /\ n.branch = branch
                     /\ n.class_name = cls /\ n.method_name = NULL}

\* MATCH (n {method_name, project_id, branch})
MatchMethod(N, branch, meth) ==
    IF branch = NULL \/ meth = NULL THEN {}
    ELSE {n \in N : n.project_id = PROJECT /\ n.branch = branch
                     /\ n.method_name = meth}

\* MATCH (n {class_name, project_id, branch}): class node and method nodes.
MatchClassAny(N, branch, cls) ==
    IF branch = NULL THEN {}
    ELSE {n \in N : n.project_id = PROJECT /\ n.branch = branch
                     /\ n.class_name = cls}

\* A resolution that looks in the base branch only.
CoalesceBaseOnly(B, M) == B

\* COALESCE(target_base, target_main) over the rows of two OPTIONAL MATCHes.
Coalesce(B, M) == IF B # {} THEN B ELSE M

\* ------------------------------------------------- generate_cypher_from_chunks
RECURSIVE Flatten(_)
Flatten(ss) == IF ss = <<>> THEN <<>> ELSE Head(ss) \o Flatten(Tail(ss))

SeqToSet(s) == {s[i] : i \in 1..Len(s)}

\* chunks[i:i + batch_size] for i in range(0, len(chunks), batch_size)
SubBatches(chunks, batch_size) ==
    [k \in 1..((Len(chunks) + batch_size - 1) \div batch_size) |->
        SubSeq(chunks, (k - 1) * batch_size + 1, Min(k * batch_size, Len(chunks)))]

\* One (query, params) pair: the query text is named by op and mode, the rows it
\* unwinds are items, and branch/main/base are the branch parameters it binds.
Query(op, mode, items, branch, main, base) ==
    [op |-> op, mode |-> mode, items |-> items, branch |-> branch,
     main |-> main, base |-> base]

\* Step 1: one tombstone per declared deletion, in one query.
TombstoneQueries(deleted, branch) ==
    IF deleted = <<>> THEN <<>>
    ELSE << Query("tombstone", "none",
                  [i \in 1..Len(deleted) |->
                      [class_name |-> deleted[i].class_name,
                       method_name |-> deleted[i].method_name,
                       ast_hash |-> deleted[i].ast_hash,
                       status |-> "DELETED"]],
                  branch, NULL, NULL) >>

\* pull_request_id is attached when given and the branch is not main_branch.
NodePr(branch, main, pr) == IF pr # NULL /\ branch # main THEN pr ELSE NULL

ClassItem(chunk, branch, main, pr) ==
    [class_name |-> chunk.full_class_name, method_name |-> NULL,
     ast_hash |-> chunk.ast_hash, status |-> "ACTIVE",
     pull_request_id |-> NodePr(branch, main, pr)]

MethodItem(chunk, m, branch, main, pr) ==
    [class_name |-> chunk.full_class_name, method_name |-> m.full_name,
     ast_hash |-> m.ast_hash, status |-> "ACTIVE",
     pull_request_id |-> NodePr(branch, main, pr)]

\* node_data of one sub-batch: each class item followed by its method items.
NodeData(batch, branch, main, pr) ==
    Flatten([j \in 1..Len(batch) |->
        <<ClassItem(batch[j], branch, main, pr)>> \o
        [i \in 1..Len(batch[j].methods) |->
            MethodItem(batch[j], batch[j].methods[i], branch, main, pr)]])

\* The delete queries sit inside the loop over the chunks of the sub-batch, so
\* chunk j appends queries for the (growing) lists of chunks 1..j.
DeleteQueries(batch, branch) ==
    Flatten([j \in 1..Len(batch) |->
        LET classes == {batch[k].full_class_name : k \in 1..j}
            meths == UNION {{<<batch[k].full_class_name, batch[k].methods[i].full_name>> :
                               i \in 1..Len(batch[k].methods)} : k \in 1..j}
        IN  <<Query("delete_class", "none", classes, branch, NULL, NULL)>> \o
            (IF meths # {}
             THEN <<Query("delete_method", "none", meths, branch, NULL, NULL)>>
             ELSE <<>>)])

CreateMode(main, base) ==
    IF main # NULL /\ base # NULL THEN "main_base"
    ELSE IF main # NULL THEN "main" ELSE "none"

CreateQuery(batch, branch, main, base, pr) ==
    Query("create", CreateMode(main, base), NodeData(batch, branch, main, pr),
          branch, main, base)

NodePhase(chunks, branch, batch_size, main, base, pr) ==
    LET sb == SubBatches(chunks, batch_size)
    IN  Flatten([k \in 1..Len(sb) |->
            DeleteQueries(sb[k], branch) \o <<CreateQuery(sb[k], branch, main, base, pr)>>])

\* One row of a relationship query; an absent key is NULL.
RelItem(sc, sm, tc, tm) ==
    [source_class |-> sc, source_method |-> sm, target_class |-> tc, target_method |-> tm]

Methods(chunk) == SeqToSet(chunk.methods)

CallRels(batch) ==
    UNION {UNION {{RelItem(c.full_class_name, m.full_name, NULL, t) : t \in m.method_calls}
                  : m \in Methods(c)} : c \in SeqToSet(batch)}

\* implement_rels without 'source_method': source is the implemented type.
ClassImplementRels(batch) ==
    UNION {{RelItem(i, NULL, c.full_class_name, NULL) : i \in c.implements}
           : c \in SeqToSet(batch)}

\* implement_rels with 'source_method': source is the inherited method.
MethodImplementRels(batch) ==
    UNION {UNION {{RelItem(NULL, i, c.full_class_name, m.full_name) : i \in m.inheritance_info}
                  : m \in Methods(c)} : c \in SeqToSet(batch)}

\* use_rels without 'source_method': field types, class annotations, and the
\* reversed handles_annotation rows (of the class and of its methods).
ClassUseRels(batch) ==
    UNION {{RelItem(c.full_class_name, NULL, t, NULL) : t \in c.used_types \cup c.annotations}
           \cup (IF c.handles_annotation # NULL
                 THEN {RelItem(c.handles_annotation, NULL, c.full_class_name, NULL)} ELSE {})
           \cup {RelItem(m.handles_annotation, NULL, c.full_class_name, m.full_name)
                   : m \in {x \in Methods(c) : x.handles_annotation # NULL}}
           : c \in SeqToSet(batch)}

\* use_rels with 'source_method': types and annotations a method uses.
MethodUseRels(batch) ==
    UNION {UNION {{RelItem(c.full_class_name, m.full_name, t, NULL)
                    : t \in m.used_types \cup m.annotations}
                  : m \in Methods(c)} : c \in SeqToSet(batch)}

CallMode(main, base) ==
    IF main # NULL THEN (IF base # NULL THEN "main_base" ELSE "main") ELSE "none"

RelMode(main) == IF main # NULL THEN "main" ELSE "none"

RelQuery(op, mode, items, branch, main, base) ==
    IF items = {} THEN <<>> ELSE <<Query(op, mode, items, branch, main, base)>>

EdgePhase(chunks, branch, batch_size, main, base) ==
    LET sb == SubBatches(chunks, batch_size)
    IN  Flatten([k \in 1..Len(sb) |->
            RelQuery("call", CallMode(main, base), CallRels(sb[k]), branch, main, base) \o
            RelQuery("class_implement", RelMode(main), ClassImplementRels(sb[k]), branch, main, base) \o
            RelQuery("method_implement", RelMode(main), MethodImplementRels(sb[k]), branch, main, base) \o
            RelQuery("class_use", RelMode(main), ClassUseRels(sb[k]), branch, main, base) \o
            RelQuery("method_use", RelMode(main), MethodUseRels(sb[k]), branch, main, base)])

\* A generator that emits the edge phase ahead of the node phase.
GenerateEdgesFirst(chunks, branch, batch_size, main, base, pr, deleted) ==
    TombstoneQueries(deleted, branch)
    \o EdgePhase(chunks, branch, batch_size, main, base)
    \o NodePhase(chunks, branch, batch_size, main, base, pr)

\* generate_cypher_from_chunks: tombstones, node phase of every sub-batch,
\* then edge phase of every sub-batch.
GenerateCypher(chunks, branch, batch_size, main, base, pr, deleted) ==
    TombstoneQueries(deleted, branch)
    \o NodePhase(chunks, branch, batch_size, main, base, pr)
    \o EdgePhase(chunks, branch, batch_size, main, base)

\* ------------------------------------------------------- query execution
RECURSIVE ExecTombstone(_, _, _)
ExecTombstone(G, items, branch) ==
    IF items = <<>> THEN G
    ELSE ExecTombstone(
            AddCopies(G, 1, branch, Head(items).class_name, Head(items).method_name,
                      Head(items).ast_hash, Head(items).status, NULL),
            Tail(items), branch)

\* Rows that reach apoc.create.node for one node_data item.
\*  main_base: both OPTIONAL MATCHes, then the WITH ... WHERE row filter;
\*  main:      the WHERE belongs to the OPTIONAL MATCH, so a row always survives;
\*  none:      unconditional.
CreateRows(N, q, item) ==
    LET M == MatchKey(N, q.main, item.class_name, item.method_name)
        B == MatchKey(N, q.base, item.class_name, item.method_name)
    IN  CASE q.mode = "main_base" ->
                IF B # {}
                THEN Cardinality({b \in B : b.ast_hash # item.ast_hash}) * Max(1, Cardinality(M))
                ELSE IF M # {}
                THEN Cardinality({m \in M : m.ast_hash # item.ast_hash})
                ELSE 1
          [] q.mode = "main" ->
                Max(1, Cardinality({m \in M : m.ast_hash # item.ast_hash}))
          [] OTHER -> 1

RECURSIVE ExecCreate(_, _, _)
ExecCreate(G, q, items) ==
    IF items = <<>> THEN G
    ELSE LET it == Head(items)
         IN  ExecCreate(AddCopies(G, CreateRows(G.nodes, q, it), q.branch, it.class_name,
                                  it.method_name, it.ast_hash, it.status,
                                  it.pull_request_id),
                        q, Tail(items))

\* Source and target candidates of one relationship row.
RelSources(N, q, it) ==
    CASE q.op = "call" -> MatchKey(N, q.branch, it.source_class, it.source_method)
      [] q.op = "class_implement" ->
            IF q.mode = "main"
            THEN Coalesce(MatchClass(N, q.base, it.source_class),
                          MatchClass(N, q.main, it.source_class))
            ELSE MatchClass(N, q.branch, it.source_class)
      [] q.op = "method_implement" ->
            IF q.mode = "main"
            THEN Coalesce(MatchMethod(N, q.base, it.source_method),
                          MatchMethod(N, q.main, it.source_method))
            ELSE MatchMethod(N, q.branch, it.source_method)
      [] q.op = "class_use" -> MatchClass(N, q.branch, it.source_class)
      [] q.op = "method_use" -> MatchKey(N, q.branch, it.source_class, it.source_method)

\* A target lookup that tries the current branch, then base, then main.
RelTargetsCurrentFirst(N, q, it) ==
    LET In(b) == CASE q.op = "call" -> MatchMethod(N, b, it.target_method)
                   [] q.op = "method_implement" ->
                         MatchKey(N, b, it.target_class, it.target_method)
                   [] OTHER -> MatchClass(N, b, it.target_class)
    IN  Coalesce(In(q.branch), Coalesce(In(q.base), In(q.main)))

RelTargets(N, q, it) ==
    CASE q.op = "call" ->
            CASE q.mode = "main_base" -> Coalesce(MatchMethod(N, q.base, it.target_method),
                                                  MatchMethod(N, q.main, it.target_method))
              [] q.mode = "main" -> MatchMethod(N, q.main, it.target_method)
              [] OTHER -> MatchMethod(N, q.branch, it.target_method)
      [] q.op = "method_implement" ->
            IF q.mode = "main"
            THEN Coalesce(MatchKey(N, q.base, it.target_class, it.target_method),
                          MatchKey(N, q.main, it.target_class, it.target_method))
            ELSE MatchKey(N, q.branch, it.target_class, it.target_method)
      [] OTHER ->
            IF q.mode = "main"
            THEN Coalesce(MatchClass(N, q.base, it.target_class),
                          MatchClass(N, q.main, it.target_class))
            ELSE MatchClass(N, q.branch, it.target_class)

RelTypeOf(op) ==
    CASE op = "call" -> "CALL"
      [] op \in {"class_implement", "method_implement"} -> "IMPLEMENT"
      [] OTHER -> "USE"

ExecRelQuery(G, q) ==
    LET pairs == UNION {{<<s.id, t.id>> : s \in RelSources(G.nodes, q, it),
                                          t \in RelTargets(G.nodes, q, it)}
                        : it \in q.items}
    IN  [G EXCEPT !.rels = MergeRels(G.rels, pairs, RelTypeOf(q.op))]

\* The two delete queries: current-branch nodes at the key, PR-scoped excluded.
DeleteClassMatches(N, q) ==
    UNION {{n \in MatchClass(N, q.branch, c) : n.pull_request_id = NULL} : c \in q.items}

DeleteMethodMatches(N, q) ==
    UNION {{n \in MatchKey(N, q.branch, k[1], k[2]) : n.pull_request_id = NULL} : k \in q.items}

\* session.run(query, params) of one generated query.
ExecQuery(G, q) ==
    CASE q.op = "tombstone" -> ExecTombstone(G, q.items, q.branch)
      [] q.op = "delete_class" -> DetachDelete(G, DeleteClassMatches(G.nodes, q))
      [] q.op = "delete_method" -> DetachDelete(G, DeleteMethodMatches(G.nodes, q))
      [] q.op = "create" -> ExecCreate(G, q, q.items)
      [] OTHER -> ExecRelQuery(G, q)

\* execute_queries_batch when no attempt fails: the queries in list order.
RECURSIVE ExecuteQueriesBatch(_, _)
ExecuteQueriesBatch(G, qs) ==
    IF qs = <<>> THEN G ELSE ExecuteQueriesBatch(ExecQuery(G, Head(qs)), Tail(qs))

\* --------------------------------------------- relationship preservation
\* The business key built in Cypher: class_name + '.' + method_name, or
\* class_name alone for a class-level node.
NodeKey(n) == <<n.class_name, n.method_name>>

\* changed_node_keys of save_changed_nodes_relationships.
ChangedKeys(chunks) ==
    UNION {{<<c.full_class_name, NULL>>}
           \cup {<<c.full_class_name, m.full_name>> : m \in Methods(c)}
           : c \in SeqToSet(chunks)}

InBranch(n, branch) == n.project_id = PROJECT /\ n.branch = branch

NodeById(N, i) == CHOOSE n \in N : n.id = i

\* A save that also records the relationships leaving the changed nodes.
SaveBothDirections(G, branch, chunks) ==
    LET keys == ChangedKeys(chunks)
        rows == {r \in G.rels :
                    LET u == NodeById(G.nodes, r.src)
                        c == NodeById(G.nodes, r.tgt)
                    IN  /\ InBranch(u, branch) /\ InBranch(c, branch)
                        /\ u.pull_request_id = NULL /\ c.pull_request_id = NULL
                        /\ (NodeKey(c) \in keys) # (NodeKey(u) \in keys)}
        un(r) == IF NodeKey(NodeById(G.nodes, r.src)) \in keys
                 THEN NodeById(G.nodes, r.tgt) ELSE NodeById(G.nodes, r.src)
        ch(r) == IF NodeKey(NodeById(G.nodes, r.src)) \in keys
                 THEN NodeById(G.nodes, r.src) ELSE NodeById(G.nodes, r.tgt)
    IN  {[unchanged_class |-> un(r).class_name, unchanged_method |-> un(r).method_name,
          rel_type |-> r.type,
          changed_class |-> ch(r).class_name, changed_method |-> ch(r).method_name,
          row |-> <<r.src, r.tgt, r.copy>>] : r \in rows}

\* save_changed_nodes_relationships: one row per relationship whose source is
\* a non-PR node outside the changed keys and whose target is a non-PR node
\* inside them, both in the branch.
SaveRels(G, branch, chunks) ==
    LET keys == ChangedKeys(chunks)
        rows == {r \in G.rels :
                    LET u == NodeById(G.nodes, r.src)
                        c == NodeById(G.nodes, r.tgt)
                    IN  /\ InBranch(u, branch) /\ InBranch(c, branch)
                        /\ u.pull_request_id = NULL /\ c.pull_request_id = NULL
                        /\ NodeKey(c) \in keys
                        /\ NodeKey(u) \notin keys}
    IN  {[unchanged_class |-> NodeById(G.nodes, r.src).class_name,
          unchanged_method |-> NodeById(G.nodes, r.src).method_name,
          rel_type |-> r.type,
          changed_class |-> NodeById(G.nodes, r.tgt).class_name,
          changed_method |-> NodeById(G.nodes, r.tgt).method_name,
          row |-> <<r.src, r.tgt, r.copy>>] : r \in rows}

\* MATCH (x {project_id, branch, class_name}) WHERE x.pull_request_id IS NULL
\*   AND (method IS NULL AND x.method_name IS NULL OR x.method_name = method)
RestoreMatch(N, branch, cls, meth) ==
    {n \in N : /\ InBranch(n, branch) /\ n.class_name = cls
                /\ n.pull_request_id = NULL
                /\ n.method_name = meth}

RECURSIVE CreateRelCopies(_, _, _, _, _)
CreateRelCopies(R, s, t, ty, k) ==
    IF k = 0 THEN R ELSE CreateRelCopies(CreateRel(R, s, t, ty), s, t, ty, k - 1)

RECURSIVE CreateRelBag(_, _, _)
CreateRelBag(R, triples, count) ==
    IF triples = {} THEN R
    ELSE LET x == CHOOSE y \in triples : TRUE
         IN  CreateRelBag(CreateRelCopies(R, x[1], x[2], x[3], count[x]),
                          triples \ {x}, count)

\* A restore step that recreates nothing.
RestoreNothing(G, branch, saved) == G

\* A restore that gives up on the whole list when one row has a missing endpoint.
RestoreAllOrNothing(G, branch, saved) ==
    LET resolved(sv) ==
            {<<u.id, c.id, sv.rel_type>> :
               u \in RestoreMatch(G.nodes, branch, sv.unchanged_class, sv.unchanged_method),
               c \in RestoreMatch(G.nodes, branch, sv.changed_class, sv.changed_method)}
        triples == UNION {resolved(sv) : sv \in saved}
        count == [x \in triples |-> Cardinality({sv \in saved : x \in resolved(sv)})]
    IN  IF \E sv \in saved : resolved(sv) = {} THEN G
        ELSE [G EXCEPT !.rels = CreateRelBag(G.rels, triples, count)]

\* restore_changed_nodes_relationships: every saved row whose two endpoints
\* resolve by key gets a new relationship (apoc.create.relationship); a row
\* with a missing endpoint yields nothing.
RestoreRels(G, branch, saved) ==
    IF saved = {} THEN G
    ELSE LET resolved(sv) ==
                 {<<u.id, c.id, sv.rel_type>> :
                    u \in RestoreMatch(G.nodes, branch, sv.unchanged_class, sv.unchanged_method),
                    c \in RestoreMatch(G.nodes, branch, sv.changed_class, sv.changed_method)}
             triples == UNION {resolved(sv) : sv \in saved}
             count == [x \in triples |-> Cardinality({sv \in saved : x \in resolved(sv)})]
         IN  [G EXCEPT !.rels = CreateRelBag(G.rels, triples, count)]

\* A dedup pass that removes nothing.
RemoveNothing(G, branch) == G

\* remove_duplicate_relationships: among the relationships whose two ends are
\* in the branch, one per (a, b, type) is kept.
RemoveDuplicateRelationships(G, branch) ==
    LET inside(r) == /\ InBranch(NodeById(G.nodes, r.src), branch)
                     /\ InBranch(NodeById(G.nodes, r.tgt), branch)
    IN  [G EXCEPT !.rels =
            {r \in G.rels : ~inside(r)}
            \cup {[src |-> r.src, tgt |-> r.tgt, type |-> r.type, copy |-> 1]
                    : r \in {x \in G.rels : inside(x)}}]

\* The text filters that split the generated list: relationship queries are
\* those whose text holds a relationship pattern ("-[", "MERGE (source)-[").
IsRelQuery(q) ==
    q.op \in {"call", "class_implement", "method_implement", "class_use", "method_use"}

\* A node filter that lets every query through.
KeepEveryQuery(q) == TRUE

\* '-[' not in query and 'MERGE (source)-[' not in query
NodeQueryFilter(q) == ~IsRelQuery(q)

\* any(keyword in query for keyword in ['MERGE (source)-[', ...])
RelQueryFilter(q) == IsRelQuery(q)

\* import_code_chunks: base_branch defaults to the current branch.
DefaultBase(branch, base) == IF base = NULL THEN branch ELSE base

\* import_changed_chunk_nodes_only
ImportNodesOnly(G, a) ==
    ExecuteQueriesBatch(G,
        SelectSeq(GenerateCypher(a.chunks, a.branch, a.batch_size, a.main,
                                 DefaultBase(a.branch, a.base), a.pr, a.deleted),
                  NodeQueryFilter))

\* import_changed_chunk_relationships
ImportRelationships(G, a) ==
    ExecuteQueriesBatch(G,
        SelectSeq(GenerateCypher(a.chunks, a.branch, a.batch_size, a.main,
                                 DefaultBase(a.branch, a.base), NULL, <<>>),
                  RelQueryFilter))

\* import_code_chunks, uninterrupted: save, replace, restore, fresh edges, dedup.
ImportCodeChunks(G, a) ==
    IF a.chunks = <<>> THEN G
    ELSE LET saved == SaveRels(G, a.branch, a.chunks)
             G2 == ImportNodesOnly(G, a)
             G3 == RestoreRels(G2, a.branch, saved)
             G4 == ImportRelationships(G3, a)
         IN  RemoveDuplicateRelationships(G4, a.branch)

\* A simple import that generates and executes whatever the chunk list holds.
ImportUnguarded(G, a) ==
    ExecuteQueriesBatch(G,
        GenerateCypher(a.chunks, a.branch, a.batch_size, a.main, a.base, a.pr, a.deleted))

\* import_code_chunks_simple: the whole generated list, no preservation.
ImportCodeChunksSimple(G, a) ==
    IF a.chunks = <<>> THEN G
    ELSE ExecuteQueriesBatch(G,
            GenerateCypher(a.chunks, a.branch, a.batch_size, a.main, a.base, a.pr, a.deleted))

\* ---------------------------------------------- copy_unchanged_nodes_from_main
\* The store calls of a clone, in order; fail names the one that raises
\* ("none": no call raises).
CloneSteps == <<"sweep", "nodes", "relationships", "duplicates", "cleanup">>

CloneArgs(main_branch, current_branch, changed_chunks, batch_size, rel_batch_size, fail) ==
    [main_branch |-> main_branch, current_branch |-> current_branch,
     changed_chunks |-> changed_chunks, batch_size |-> batch_size,
     rel_batch_size |-> rel_batch_size, fail |-> fail]

\* The store during a clone: the graph and the NodeMapping rows.
Store(G, M) == [nodes |-> G.nodes, rels |-> G.rels, next |-> G.next, mappings |-> M]

\* node_key: class_name + '.' + method_name, or class_name for a class node.
NodeKeyString(cls, meth) == IF meth # NULL THEN cls \o "." \o meth ELSE cls

\* The assignments of _build_changed_node_hashes, in order.
HashEntries(chunks) ==
    Flatten([i \in 1..Len(chunks) |->
        <<[key |-> chunks[i].full_class_name, hash |-> chunks[i].ast_hash]>>
        \o [j \in 1..Len(chunks[i].methods) |->
              [key |-> chunks[i].full_class_name \o "." \o chunks[i].methods[j].full_name,
               hash |-> chunks[i].methods[j].ast_hash]]])

\* _build_changed_node_hashes: a dict, a later assignment to a key wins.
BuildChangedNodeHashes(chunks) ==
    LET es == HashEntries(chunks)
        lastAt(k) == CHOOSE i \in DOMAIN es :
                        es[i].key = k /\ \A j \in DOMAIN es : es[j].key = k => j <= i
    IN  [k \in {es[i].key : i \in DOMAIN es} |-> es[lastAt(k)].hash]

\* A copy filter that keeps every non-PR node of the source branch.
CopyEverything(N, a, hashes) ==
    {n \in N : InBranch(n, a.main_branch) /\ n.pull_request_id = NULL}

\* The rows of the copy queries before SKIP/LIMIT: non-PR nodes of the source
\* branch whose key is not in the dict, or is there with the node's hash.
CopyCandidates(N, a, hashes) ==
    {n \in N : /\ InBranch(n, a.main_branch) /\ n.pull_request_id = NULL
               /\ LET k == NodeKeyString(n.class_name, n.method_name)
                  IN  \/ k \in DOMAIN hashes /\ n.ast_hash = hashes[k]
                      \/ k \notin DOMAIN hashes}

\* Rows come out of the store in id order, the same order for every page.
RECURSIVE SortById(_)
SortById(S) ==
    IF S = {} THEN <<>>
    ELSE LET x == CHOOSE n \in S : \A o \in S : n.id <= o.id
         IN  <<x>> \o SortById(S \ {x})

\* SKIP skip LIMIT limit
Page(rows, skip, limit) ==
    IF skip >= Len(rows) THEN <<>>
    ELSE SubSeq(rows, skip + 1, Min(skip + limit, Len(rows)))

\* _create_batch_copy_query: apoc.create.node with the branch replaced, and a
\* NodeMapping row per copy.
RECURSIVE CopyRows(_, _, _)
CopyRows(St, rows, a) ==
    IF rows = <<>> THEN St
    ELSE LET n == Head(rows)
             copy == [n EXCEPT !.id = St.next, !.branch = a.current_branch]
         IN  CopyRows([St EXCEPT !.nodes = @ \cup {copy},
                                 !.next = @ + 1,
                                 !.mappings = @ \cup {[old_id |-> n.id, new_id |-> copy.id,
                                                       project_id |-> PROJECT,
                                                       branch |-> a.current_branch]}],
                      Tail(rows), a)

\* while skip < total_nodes: copy a page; stop at a page that copied nothing.
RECURSIVE CopyNodesLoop(_, _, _, _, _)
CopyNodesLoop(St, a, hashes, skip, total) ==
    IF skip >= total THEN St
    ELSE LET rows == Page(SortById(CopyCandidates(St.nodes, a, hashes)), skip, a.batch_size)
         IN  IF rows = <<>> THEN St
             ELSE CopyNodesLoop(CopyRows(St, rows, a), a, hashes, skip + a.batch_size, total)

\* _copy_nodes_in_batches
CopyNodesInBatches(St, a) ==
    LET hashes == BuildChangedNodeHashes(a.changed_chunks)
    IN  CopyNodesLoop(St, a, hashes, 0, Cardinality(CopyCandidates(St.nodes, a, hashes)))

\* (main_source)-[rel]->(main_target), both non-PR nodes of the source branch.
SourceRels(St, a) ==
    {r \in St.rels :
        LET s == NodeById(St.nodes, r.src)
            t == NodeById(St.nodes, r.tgt)
        IN  /\ InBranch(s, a.main_branch) /\ InBranch(t, a.main_branch)
            /\ s.pull_request_id = NULL /\ t.pull_request_id = NULL}

\* MATCH (m:NodeMapping {old_id: id, project_id, branch: $current_branch})
MappingsOf(St, a, id) ==
    {mp \in St.mappings : mp.old_id = id /\ mp.project_id = PROJECT
                          /\ mp.branch = a.current_branch}

\* The rows of the three relationship queries before SKIP/LIMIT. A row holds
\* the relationship and the new ids its mappings give (0: no mapping bound).
RelRows(kind, St, a) ==
    CASE kind = "internal" ->
            UNION {{[rel |-> r, source |-> sm.new_id, target |-> tm.new_id] :
                      sm \in MappingsOf(St, a, r.src), tm \in MappingsOf(St, a, r.tgt)}
                   : r \in SourceRels(St, a)}
      [] kind = "cross" ->
            UNION {{[rel |-> r, source |-> sm.new_id, target |-> 0] :
                      sm \in MappingsOf(St, a, r.src)}
                   : r \in {x \in SourceRels(St, a) : MappingsOf(St, a, x.tgt) = {}}}
      [] kind = "reverse" ->
            UNION {{[rel |-> r, source |-> 0, target |-> tm.new_id] :
                      tm \in MappingsOf(St, a, r.tgt)}
                   : r \in {x \in SourceRels(St, a) : MappingsOf(St, a, x.src) = {}}}

RelTypeOrder == <<"CALL", "IMPLEMENT", "USE">>

RowRank(row) ==
    <<row.rel.src, row.rel.tgt,
      CHOOSE i \in DOMAIN RelTypeOrder : RelTypeOrder[i] = row.rel.type,
      row.rel.copy, row.source, row.target>>

LexLeq(s, t) ==
    \/ s = t
    \/ \E i \in DOMAIN s : s[i] < t[i] /\ \A j \in 1..(i - 1) : s[j] = t[j]

RECURSIVE SortRows(_)
SortRows(S) ==
    IF S = {} THEN <<>>
    ELSE LET x == CHOOSE r \in S : \A o \in S : LexLeq(RowRank(r), RowRank(o))
         IN  <<x>> \o SortRows(S \ {x})

\* MATCH (x {project_id, branch: $current_branch, class_name: n.class_name})
\* WHERE both method names are null or they are equal
ByBusinessKey(St, a, n) ==
    {x \in St.nodes : InBranch(x, a.current_branch)
                      /\ x.class_name = n.class_name /\ x.method_name = n.method_name}

\* The (source, target) pairs one row binds after SKIP/LIMIT.
RowPairs(kind, St, a, row) ==
    LET byId(i) == {n.id : n \in {x \in St.nodes : x.id = i}}
        byKey(i) == NodeIds(ByBusinessKey(St, a, NodeById(St.nodes, i)))
    IN  CASE kind = "internal" -> byId(row.source) \X byId(row.target)
          [] kind = "cross" -> byId(row.source) \X byKey(row.rel.tgt)
          [] kind = "reverse" -> byKey(row.rel.src) \X byId(row.target)

\* apoc.create.relationship for every bound pair of a row.
RECURSIVE CreateForPairs(_, _, _)
CreateForPairs(R, pairs, ty) ==
    IF pairs = {} THEN R
    ELSE LET p == CHOOSE q \in pairs : TRUE
         IN  CreateForPairs(CreateRel(R, p[1], p[2], ty), pairs \ {p}, ty)

RECURSIVE CreatePage(_, _, _, _, _)
CreatePage(R, kind, St, a, rows) ==
    IF rows = <<>> THEN R
    ELSE CreatePage(CreateForPairs(R, RowPairs(kind, St, a, Head(rows)), Head(rows).rel.type),
                    kind, St, a, Tail(rows))

\* while skip < total: run the paged query; stop at a page that created nothing.
RECURSIVE CopyRelsLoop(_, _, _, _, _)
CopyRelsLoop(kind, St, a, skip, total) ==
    IF skip >= total THEN St
    ELSE LET rows == Page(SortRows(RelRows(kind, St, a)), skip, a.rel_batch_size)
             R == CreatePage(St.rels, kind, St, a, rows)
         IN  IF R = St.rels THEN St
             ELSE CopyRelsLoop(kind, [St EXCEPT !.rels = R], a, skip + a.rel_batch_size, total)

\* _copy_internal_relationships, _copy_cross_relationships,
\* _copy_reverse_cross_relationships
CopyRelationships(kind, St, a) ==
    CopyRelsLoop(kind, St, a, 0, Cardinality(RelRows(kind, St, a)))

\* _copy_all_relationships
CopyAllRelationships(St, a) ==
    CopyRelationships("reverse",
        CopyRelationships("cross", CopyRelationships("internal", St, a), a), a)

\* _remove_duplicate_nodes: of the non-PR nodes of the target branch with one
\* (class_name, method_name), all but the first collected are detach-deleted.
RemoveDuplicateNodes(St, a) ==
    LET T == {n \in St.nodes : InBranch(n, a.current_branch) /\ n.pull_request_id = NULL}
    IN  DetachDelete(St, {n \in T : \E o \in T : NodeKey(o) = NodeKey(n) /\ o.id < n.id})

\* _cleanup_mapping_nodes: the rows of (project, target branch) are deleted.
CleanupMappingNodes(St, a) ==
    [St EXCEPT !.mappings =
        {mp \in @ : ~(mp.project_id = PROJECT /\ mp.branch = a.current_branch)}]

\* _cleanup_existing_mappings: the rows of (project, target branch), then the
\* rows of the project neither of whose ids is a node of the project.
CleanupExistingMappings(St, a) ==
    LET S1 == CleanupMappingNodes(St, a)
        ids == {n.id : n \in {x \in St.nodes : x.project_id = PROJECT}}
    IN  [S1 EXCEPT !.mappings =
            {mp \in @ : ~(mp.project_id = PROJECT
                          /\ mp.old_id \notin ids /\ mp.new_id \notin ids)}]

\* An exception of sweep, nodes, relationships or duplicates leaves the
\* function; an exception of the final cleanup is logged and swallowed.
CloneRaises(a) == a.fail \in {"sweep", "nodes", "relationships", "duplicates"}

\* copy_unchanged_nodes_from_main: the store after the call returned or raised.
CopyUnchangedNodesFromMain(St, a) ==
    LET S1 == CleanupExistingMappings(St, a)
        S2 == CopyNodesInBatches(S1, a)
        S3 == CopyAllRelationships(S2, a)
        S4 == RemoveDuplicateNodes(S3, a)
        S5 == CleanupMappingNodes(S4, a)
    IN  CASE a.fail = "sweep" -> St
          [] a.fail = "nodes" -> S1
          [] a.fail = "relationships" -> S2
          [] a.fail = "duplicates" -> S3
          [] a.fail = "cleanup" -> S4
          [] OTHER -> S5

\* ------------------------------------------------------------ state machine
Graph == [nodes |-> nodes, rels |-> rels, next |-> nextId]

Args(branch, chunks, batch_size, main, base, pr, deleted) ==
    [branch |-> branch, chunks |-> chunks, batch_size |-> batch_size,
     main |-> main, base |-> base, pr |-> pr, deleted |-> deleted]

NoArgs == Args(NULL, <<>>, 1, NULL, NULL, NULL, <<>>)

\* History of the last completed call: its operation and arguments, the graph
\* it started from, and whether the call before it was the same call.
NoCall == [op |-> "none", args |-> NoArgs, pre |-> EmptyGraph, repeat |-> FALSE]

\* Declared deletions: the method of ClassB with its prior hash.
\* The run of import_code_chunks under way: none, the first one, one that was
\* interrupted (at is the step it had completed), or its re-run; start is the
\* graph the first run started from.
NoRun == [phase |-> "none", at |-> "idle", start |-> EmptyGraph]

DeletedMB == [class_name |-> "B", method_name |-> "mB", ast_hash |-> 1]

FullBatch == <<ChunkA, ChunkB(1), ChunkC>>

\* Batches with the batch_size they are imported with and the deletions
\* declared with them: the sub-batch size only matters for a batch of several
\* chunks.
BatchInputs ==
    {<<ch, 1, <<>>>> : ch \in {<<ChunkA>>, <<ChunkB(1)>>, <<ChunkB(2)>>, <<ChunkU(1)>>}}
    \cup {<<<<ChunkA>>, 1, <<DeletedMB>>>>}
    \cup {<<FullBatch, bs, <<>>>> : bs \in 1..MaxBatchSize}

\* Branch configurations <<branch, main_branch, base_branch, pull_request_id>>.
Configs ==
    {<<"feat", NULL, NULL, NULL>>, <<"feat", "main", NULL, NULL>>,
     <<"feat", "main", "feat", NULL>>, <<"feat", "main", "main", NULL>>,
     <<"feat", NULL, "feat", NULL>>, <<"feat", NULL, "main", NULL>>,
     <<"feat", NULL, NULL, "pr1">>, <<"feat", "main", NULL, "pr1">>,
     <<"feat", "main", "feat", "pr1">>,
     <<"main", NULL, NULL, NULL>>, <<"main", "main", NULL, "pr1">>}

ImportArgs ==
    {Args(c[1], bi[1], bi[2], c[2], c[3], c[4], bi[3]) :
        c \in Configs, bi \in BatchInputs}

\* The graphs a run starts from: nothing, or the sample program imported
\* (simple mode, no comparison branch) into main, into feat, or into both.
FirstImport(G, b) ==
    ImportCodeChunksSimple(G, Args(b, FullBatch, MaxBatchSize, NULL, NULL, NULL, <<>>))

\* A feature branch that diverged: ClassB re-imported with a new method hash.
Diverge(G) ==
    ImportCodeChunksSimple(G, Args("feat", <<ChunkB(2)>>, 1, NULL, NULL, NULL, <<>>))

InitGraphs ==
    {EmptyGraph, FirstImport(EmptyGraph, "main"), FirstImport(EmptyGraph, "feat"),
     FirstImport(FirstImport(EmptyGraph, "main"), "feat"),
     Diverge(FirstImport(FirstImport(EmptyGraph, "main"), "feat"))}

Init ==
    /\ \E G \in InitGraphs : nodes = G.nodes /\ rels = G.rels /\ nextId = G.next
    /\ mappings = {}
    /\ calls = 0
    /\ last = NoCall
    /\ pc = "idle"
    /\ job = NoArgs
    /\ saved_rels = {}
    /\ hist = NoRun

Record(op, a) ==
    /\ calls' = calls + 1
    /\ last' = [op |-> op, args |-> a, pre |-> Graph,
                repeat |-> (last.op = op /\ last.args = a)]

\* import_code_chunks_simple(chunks, batch_size, main_branch, base_branch,
\*                           pull_request_id, deleted_nodes)
ImportFactsSimple ==
    /\ pc = "idle" /\ calls < MaxCalls
    /\ \E a \in ImportArgs :
          LET G == ImportCodeChunksSimple(Graph, a)
          IN  /\ nodes' = G.nodes
              /\ rels' = G.rels
              /\ nextId' = G.next
              /\ Record("simple", a)
    /\ UNCHANGED <<mappings, pc, job, saved_rels, hist>>

\* import_code_chunks(...), run to completion.
ImportFacts ==
    /\ pc = "idle" /\ calls < MaxCalls
    /\ \E a \in ImportArgs :
          LET G == ImportCodeChunks(Graph, a)
          IN  /\ nodes' = G.nodes
              /\ rels' = G.rels
              /\ nextId' = G.next
              /\ Record("facts", a)
    /\ UNCHANGED <<mappings, pc, job, saved_rels, hist>>

Next == ImportFactsSimple \/ ImportFacts

Spec == Init /\ [][Next]_vars

\* A second import_code_chunks_simple call with the arguments of the one
\* before it.
RepeatImportSimple ==
    /\ pc = "idle" /\ last.op = "simple" /\ ~last.repeat
    /\ LET G == ImportCodeChunksSimple(Graph, last.args)
       IN  /\ nodes' = G.nodes
           /\ rels' = G.rels
           /\ nextId' = G.next
           /\ Record("simple", last.args)
    /\ UNCHANGED <<mappings, pc, job, saved_rels, hist>>

NextRepeat == ImportFactsSimple \/ RepeatImportSimple

SpecRepeat == Init /\ [][NextRepeat]_vars

\* ---------------------------------------------------- property vocabulary
\* The facts of a batch as (key, hash) items.
FactItems(chunks) ==
    UNION {{[key |-> <<c.full_class_name, NULL>>, hash |-> c.ast_hash]}
           \cup {[key |-> <<c.full_class_name, m.full_name>>, hash |-> m.ast_hash]
                   : m \in Methods(c)}
           : c \in SeqToSet(chunks)}

FactHash(chunks, key) == (CHOOSE f \in FactItems(chunks) : f.key = key).hash

\* Nodes of a branch at an identity key, PR-scoped or not.
AtKey(N, branch, key) == {n \in N : InBranch(n, branch) /\ NodeKey(n) = key}

Unscoped(S) == {n \in S : n.pull_request_id = NULL}

ImportDone == last.op \in {"simple", "facts"} /\ last.args.chunks # <<>>

\* Nodes the last call created: their ids were not yet handed out before it.
CreatedByLast == {n \in nodes : n.id >= last.pre.next}

\* Relationships of one type from a node to the nodes of a set.
RelsFromTo(R, s, T, ty) ==
    {r \in R : r.type = ty /\ r.src = s /\ r.tgt \in NodeIds(T)}

\* C2 (as stated): a CALL edge A -> B of the branch, A outside the batch and B
\* in the batch with a different hash, is after import_code_chunks exactly one
\* CALL edge from A's node to the node at B's key, which carries the new hash.
C2_PreservationAsStated ==
    last.op = "facts" =>
        \A r \in last.pre.rels :
            LET u == NodeById(last.pre.nodes, r.src)
                c == NodeById(last.pre.nodes, r.tgt)
                keys == ChangedKeys(last.args.chunks)
                T == AtKey(nodes, last.args.branch, NodeKey(c))
            IN  ( /\ r.type = "CALL"
                  /\ InBranch(u, last.args.branch) /\ InBranch(c, last.args.branch)
                  /\ NodeKey(u) \notin keys /\ NodeKey(c) \in keys
                  /\ FactHash(last.args.chunks, NodeKey(c)) # c.ast_hash )
                => /\ Cardinality(RelsFromTo(rels, u.id, T, "CALL")) = 1
                   /\ \A t \in T : t.ast_hash = FactHash(last.args.chunks, NodeKey(c))

\* The comparison branch of the Change Detector: base when configured, else main.
ComparisonBranch(a) == IF a.base # NULL THEN a.base ELSE a.main

\* C3 (as stated): a fact whose hash equals the hash of the node with its key
\* in the comparison branch gets no node created in the current branch. The
\* comparison branch is taken to be another branch than the one imported
\* into (compared with itself a fact is deleted first and always recreated).
C3_HashGatedAsStated ==
    (ImportDone /\ ComparisonBranch(last.args) # last.args.branch) =>
        \A f \in FactItems(last.args.chunks) :
            (\E n \in Unscoped(AtKey(last.pre.nodes, ComparisonBranch(last.args), f.key)) :
                n.ast_hash = f.hash)
            => AtKey(CreatedByLast, last.args.branch, f.key) = {}

DeletedKey(d) == <<d.class_name, d.method_name>>

\* C4 (as stated): an identity that has a node in the branch and is declared
\* deleted (so it is no fact of the new batch) has, after the run, exactly one
\* DELETED node and no ACTIVE or MODIFIED node in the branch.
C4_TombstoneAsStated ==
    ImportDone =>
        \A d \in SeqToSet(last.args.deleted) :
            ( /\ AtKey(last.pre.nodes, last.args.branch, DeletedKey(d)) # {}
              /\ DeletedKey(d) \notin ChangedKeys(last.args.chunks) )
            => LET S == AtKey(nodes, last.args.branch, DeletedKey(d))
               IN  /\ Cardinality({n \in S : n.status = "DELETED"}) = 1
                   /\ {n \in S : n.status \in {"ACTIVE", "MODIFIED"}} = {}

\* The references of a batch: source key, relationship type and target name
\* (a method name for CALL, a class name for USE).
References(chunks) ==
    {[key |-> <<r.source_class, r.source_method>>, type |-> "CALL", target |-> r.target_method]
        : r \in CallRels(chunks)}
    \cup {[key |-> <<r.source_class, r.source_method>>, type |-> "USE", target |-> r.target_class]
        : r \in ClassUseRels(chunks) \cup MethodUseRels(chunks)}

\* The nodes a reference names in one branch.
Referenced(N, branch, ref) ==
    IF ref.type = "CALL" THEN MatchMethod(N, branch, ref.target)
    ELSE MatchClass(N, branch, ref.target)

\* X exists only on main: before and after the call main has a node for the
\* reference and no other branch has one.
OnlyOnMain(ref) ==
    /\ Referenced(nodes, last.args.main, ref) # {}
    /\ \A b \in Branches \ {last.args.main} :
          Referenced(nodes, b, ref) = {} /\ Referenced(last.pre.nodes, b, ref) = {}

CrossBranchCase(ref) ==
    /\ ImportDone
    /\ last.args.main # NULL /\ last.args.main # last.args.branch
    /\ ref \in References(last.args.chunks)
    /\ OnlyOnMain(ref)

HelperChunks == {<<ChunkB(2)>>, <<ChunkC>>, <<ChunkA, ChunkB(1)>>}

HelperArgs(branch, chunks) == Args(branch, chunks, 1, NULL, NULL, NULL, <<>>)

\* saved_rels = save_changed_nodes_relationships(project_id, branch, changed_chunks)
SaveChangedNodesRelationships ==
    /\ pc = "idle" /\ calls < MaxOps
    /\ \E b \in Branches, ch \in HelperChunks :
          /\ saved_rels' = SaveRels(Graph, b, ch)
          /\ Record("save", HelperArgs(b, ch))
    /\ UNCHANGED <<nodes, rels, nextId, mappings, pc, job, hist>>

\* restore_changed_nodes_relationships(project_id, branch, saved_rels)
RestoreChangedNodesRelationships ==
    /\ pc = "idle" /\ calls < MaxOps
    /\ \E b \in Branches :
          LET G == RestoreRels(Graph, b, saved_rels)
          IN  /\ nodes' = G.nodes
              /\ rels' = G.rels
              /\ nextId' = G.next
              /\ Record("restore", HelperArgs(b, <<>>))
    /\ UNCHANGED <<mappings, pc, job, saved_rels, hist>>

\* remove_duplicate_relationships(project_id, branch)
RemoveDuplicates ==
    /\ pc = "idle" /\ calls < MaxOps
    /\ \E b \in Branches :
          LET G == RemoveDuplicateRelationships(Graph, b)
          IN  /\ nodes' = G.nodes
              /\ rels' = G.rels
              /\ nextId' = G.next
              /\ Record("dedup", HelperArgs(b, <<>>))
    /\ UNCHANGED <<mappings, pc, job, saved_rels, hist>>

NextHelpers ==
    SaveChangedNodesRelationships \/ RestoreChangedNodesRelationships \/ RemoveDuplicates

SpecHelpers == Init /\ [][NextHelpers]_vars

\* ------------------------------------ import_code_chunks, one step at a time
\* Step 1/5: the boundary relationships are saved in the memory of the run.
BeginImport ==
    /\ pc = "idle"
    /\ \E a \in ImportArgs :
          /\ \/ hist.phase = "none" /\ calls = 0
                /\ hist' = [phase |-> "first", at |-> "idle", start |-> Graph]
             \/ hist.phase = "interrupted" /\ a = job
                /\ hist' = [hist EXCEPT !.phase = "rerun"]
          /\ job' = a
          /\ saved_rels' = SaveRels(Graph, a.branch, a.chunks)
    /\ pc' = "saved"
    /\ UNCHANGED <<nodes, rels, nextId, mappings, calls, last>>

\* Step 2/5: import_changed_chunk_nodes_only
StepNodes ==
    /\ pc = "saved"
    /\ LET G == ImportNodesOnly(Graph, job)
       IN  nodes' = G.nodes /\ rels' = G.rels /\ nextId' = G.next
    /\ pc' = "nodes"
    /\ UNCHANGED <<mappings, calls, last, job, saved_rels, hist>>

\* Step 3/5: restore_changed_nodes_relationships, if anything was saved
StepRestore ==
    /\ pc = "nodes"
    /\ LET G == RestoreRels(Graph, job.branch, saved_rels)
       IN  nodes' = G.nodes /\ rels' = G.rels /\ nextId' = G.next
    /\ pc' = "restored"
    /\ UNCHANGED <<mappings, calls, last, job, saved_rels, hist>>

\* Step 4/5: import_changed_chunk_relationships
StepRelationships ==
    /\ pc = "restored"
    /\ LET G == ImportRelationships(Graph, job)
       IN  nodes' = G.nodes /\ rels' = G.rels /\ nextId' = G.next
    /\ pc' = "relationships"
    /\ UNCHANGED <<mappings, calls, last, job, saved_rels, hist>>

\* Step 5/5: remove_duplicate_relationships; the call returns.
StepDedup ==
    /\ pc = "relationships"
    /\ LET G == RemoveDuplicateRelationships(Graph, job.branch)
       IN  nodes' = G.nodes /\ rels' = G.rels /\ nextId' = G.next
    /\ pc' = "idle"
    /\ saved_rels' = {}
    /\ calls' = calls + 1
    /\ last' = [op |-> "facts", args |-> job, pre |-> hist.start, repeat |-> FALSE]
    /\ UNCHANGED <<mappings, job, hist>>

\* The process dies, or a step raises after its retries, between two steps of
\* the first run: the store keeps what was written, the saved relationships
\* are gone with the memory of the run.
Interrupt ==
    /\ pc \in {"saved", "nodes", "restored", "relationships"}
    /\ hist.phase = "first"
    /\ hist' = [hist EXCEPT !.phase = "interrupted", !.at = pc]
    /\ pc' = "idle"
    /\ saved_rels' = {}
    /\ UNCHANGED <<nodes, rels, nextId, mappings, calls, last, job>>

NextSteps ==
    \/ BeginImport \/ StepNodes \/ StepRestore \/ StepRelationships \/ StepDedup
    \/ Interrupt

SpecSteps == Init /\ [][NextSteps]_vars

\* ------------------------------------------------------------ the cloner
\* A branch with a tombstone beside the live node, and a branch with PR-scoped
\* nodes beside unscoped ones.
TombstoneGraph ==
    ImportCodeChunksSimple(FirstImport(EmptyGraph, "main"),
        Args("main", <<ChunkA>>, 1, NULL, NULL, NULL, <<DeletedMB>>))

PullRequestGraph ==
    ImportCodeChunksSimple(FirstImport(EmptyGraph, "main"),
        Args("main", <<ChunkB(2)>>, 1, NULL, NULL, "pr1", <<>>))

CloneGraphs == InitGraphs \cup {TombstoneGraph, PullRequestGraph}

\* batch_size and rel_batch_size (both default to 500): one value for both.
PageSizes == {<<n, n>> : n \in 1..MaxPageSize}

\* What a clone that raised while copying relationships leaves behind.
FailedClone(G) ==
    CopyUnchangedNodesFromMain(Store(G, {}),
        CloneArgs("main", "feat", <<>>, MaxPageSize, MaxPageSize, "relationships"))

CloneInputs ==
    {CloneArgs(d[1], d[2], ch, ps[1], ps[2], f) :
        d \in {<<"main", "feat">>},
        ch \in {<<>>, <<ChunkB(1)>>, <<ChunkB(2)>>, <<ClassFact("C", 2, <<>>, {}, {})>>},
        ps \in PageSizes,
        f \in {"none"} \cup SeqToSet(CloneSteps)}

InitClone ==
    /\ \E G \in CloneGraphs :
          \E St \in {Store(G, {}), FailedClone(G)} :
             /\ nodes = St.nodes /\ rels = St.rels /\ nextId = St.next
             /\ mappings = St.mappings
    /\ calls = 0
    /\ last = NoCall
    /\ pc = "idle"
    /\ job = NoArgs
    /\ saved_rels = {}
    /\ hist = NoRun

\* copy_unchanged_nodes_from_main(project_id, main_branch, current_branch,
\*                                changed_chunks, batch_size, rel_batch_size)
CloneBranch ==
    /\ pc = "idle" /\ calls < MaxClones
    /\ \E a \in CloneInputs :
          LET St == CopyUnchangedNodesFromMain(Store(Graph, mappings), a)
          IN  /\ nodes' = St.nodes
              /\ rels' = St.rels
              /\ nextId' = St.next
              /\ mappings' = St.mappings
              /\ last' = [op |-> "clone", args |-> a, pre |-> Store(Graph, mappings),
                          repeat |-> FALSE, raised |-> CloneRaises(a)]
    /\ calls' = calls + 1
    /\ UNCHANGED <<pc, job, saved_rels, hist>>

NextClone == CloneBranch

SpecClone == InitClone /\ [][NextClone]_vars

\* A node without its store id, and the graph as the bag of such nodes and of
\* the relationships between them.
NodeShape(n) ==
    <<n.branch, n.class_name, n.method_name, n.ast_hash, n.status, n.pull_request_id>>

RelShape(N, r) == <<NodeShape(NodeById(N, r.src)), r.type, NodeShape(NodeById(N, r.tgt))>>

NodeBag(N) ==
    [s \in {NodeShape(n) : n \in N} |-> Cardinality({n \in N : NodeShape(n) = s})]

RelBag(N, R) ==
    [s \in {RelShape(N, r) : r \in R} |-> Cardinality({r \in R : RelShape(N, r) = s})]

\* C1 (as stated): a second import_code_chunks_simple call with the same
\* facts and branch configuration (no deletions declared) leaves the node set
\* and the edge set of the first call: the branch has as many nodes as before
\* and no (source, target, type) edge exists twice.
C1_IdempotenceAsStated ==
    (last.op = "simple" /\ last.repeat /\ last.args.deleted = <<>>) =>
        /\ NodeBag(nodes) = NodeBag(last.pre.nodes)
        /\ RelBag(nodes, rels) = RelBag(last.pre.nodes, last.pre.rels)
        /\ Cardinality({n \in nodes : InBranch(n, last.args.branch)})
             <= Cardinality({n \in last.pre.nodes : InBranch(n, last.args.branch)})
        /\ \A r \in rels : r.copy = 1

\* The graph of the relationship-preservation tests: ClassA, ClassB and
\* ClassC imported into one branch with no main and no base branch.
ScenarioCase ==
    /\ last.op = "facts"
    /\ last.pre = FirstImport(EmptyGraph, last.args.branch)
    /\ last.args.chunks = <<ChunkB(2)>>
    /\ last.args.base = last.args.branch
    /\ last.args.pr = NULL /\ last.args.deleted = <<>>

\* C9: on that graph, import_code_chunks of ClassB alone with a changed
\* method hash and the branch as its own base replaces B's nodes and leaves
\* exactly one CALL from A.m to B.m, exactly one USE from B.m to C, and two
\* relationships in all.
C9_EndToEndScenario ==
    ScenarioCase =>
        LET b == last.args.branch
            mA == AtKey(nodes, b, <<"A", "mA">>)
            mB == AtKey(nodes, b, <<"B", "mB">>)
            B == AtKey(nodes, b, <<"B", NULL>>)
            C == AtKey(nodes, b, <<"C", NULL>>)
        IN  /\ Cardinality(mA) = 1 /\ Cardinality(mB) = 1
            /\ Cardinality(B) = 1 /\ Cardinality(C) = 1
            /\ (B \cup mB) \subseteq CreatedByLast
            /\ (mA \cup C) \cap CreatedByLast = {}
            /\ \A n \in mB : n.ast_hash = 2
            /\ \A a \in mA : Cardinality(RelsFromTo(rels, a.id, mB, "CALL")) = 1
            /\ \A m \in mB : Cardinality(RelsFromTo(rels, m.id, C, "USE")) = 1
            /\ Cardinality(rels) = 2

\* C9 witness: the scenario ran and the restored CALL edge ends at the new
\* method node of ClassB.
C9_Witness ==
    /\ ScenarioCase
    /\ \E r \in rels : /\ r.type = "CALL"
                        /\ NodeById(nodes, r.tgt) \in CreatedByLast
                        /\ NodeById(nodes, r.tgt).ast_hash = 2

\* C8: after remove_duplicate_relationships on a branch, every ordered pair of
\* nodes of the branch has at most one relationship of each type, exactly one
\* where it had at least one before, and the nodes are those of before.
C8_EdgeDedup ==
    last.op = "dedup" =>
        /\ nodes = last.pre.nodes
        /\ \A x, y \in {n \in nodes : InBranch(n, last.args.branch)} :
              \A ty \in RelTypes :
                 /\ RelCount(rels, x.id, y.id, ty) <= 1
                 /\ RelCount(last.pre.rels, x.id, y.id, ty) >= 1
                      => RelCount(rels, x.id, y.id, ty) = 1

\* C8 witness: a pair that had three relationships of one type has one.
C8_Witness ==
    /\ last.op = "dedup"
    /\ \E r \in last.pre.rels :
          /\ RelCount(last.pre.rels, r.src, r.tgt, r.type) >= 3
          /\ RelCount(rels, r.src, r.tgt, r.type) = 1

\* The relationships of one type from the nodes at one key to the nodes at
\* another key of a branch.
RelsBetweenKeys(G, branch, from, type, to) ==
    {r \in G.rels : /\ r.type = type
                    /\ NodeById(G.nodes, r.src) \in AtKey(G.nodes, branch, from)
                    /\ NodeById(G.nodes, r.tgt) \in AtKey(G.nodes, branch, to)}

\* C10 (as stated): a run of import_code_chunks that was interrupted between
\* two steps and then run again from scratch with the same arguments ends as
\* the uninterrupted run ends; in particular every relationship from an
\* unchanged node to a changed node that existed before the first run, and
\* that the uninterrupted run leaves exactly once, exists exactly once after
\* the re-run.
C10_RerunAsStated ==
    (pc = "idle" /\ hist.phase = "rerun" /\ last.op = "facts") =>
        LET U == ImportCodeChunks(hist.start, job)
            count(G, sv) ==
                Cardinality(RelsBetweenKeys(G, job.branch,
                    <<sv.unchanged_class, sv.unchanged_method>>, sv.rel_type,
                    <<sv.changed_class, sv.changed_method>>))
        IN  \A sv \in SaveRels(hist.start, job.branch, job.chunks) :
                count(U, sv) = 1 => count(Graph, sv) = 1

\* C7 (as stated): when the clone has returned without raising, no NodeMapping
\* row of (project, target branch) exists, whatever rows existed before.
C7_MappingTransientAsStated ==
    (last.op = "clone" /\ ~last.raised) =>
        {mp \in mappings : mp.project_id = PROJECT
                           /\ mp.branch = last.args.current_branch} = {}

\* The properties a copy shares with its original.
CopiedProps(n) ==
    <<n.class_name, n.method_name, n.ast_hash, n.status, n.pull_request_id>>

PropsBag(N) ==
    [p \in {CopiedProps(n) : n \in N} |-> Cardinality({n \in N : CopiedProps(n) = p})]

\* The relationships among a set of nodes, as a bag over the ends' properties.
PropsRelBag(N, R) ==
    LET inside == {r \in R : r.src \in NodeIds(N) /\ r.tgt \in NodeIds(N)}
        shape(r) == <<CopiedProps(NodeById(N, r.src)), r.type, CopiedProps(NodeById(N, r.tgt))>>
    IN  [p \in {shape(r) : r \in inside} |-> Cardinality({r \in inside : shape(r) = p})]

\* A clone that returned, into a target branch that had no node.
CloneIntoEmpty ==
    /\ last.op = "clone" /\ ~last.raised
    /\ {n \in last.pre.nodes : InBranch(n, last.args.current_branch)} = {}

SourceNodes == Unscoped({n \in last.pre.nodes : InBranch(n, last.args.main_branch)})

ExcludedKeys == ChangedKeys(last.args.changed_chunks)

TargetNodes == {n \in nodes : InBranch(n, last.args.current_branch)}

\* C6 (as stated): the target holds exactly one node for every non-PR source
\* node whose key is not excluded, no node for an excluded key, and for every
\* source relationship between two copied nodes exactly one of the same type
\* between their copies.
C6_CloneCompletenessAsStated ==
    CloneIntoEmpty =>
        LET copied == {n \in SourceNodes : NodeKey(n) \notin ExcludedKeys}
        IN  /\ PropsBag(TargetNodes) = PropsBag(copied)
            /\ \A t \in TargetNodes : NodeKey(t) \notin ExcludedKeys
            /\ PropsRelBag(TargetNodes, rels) = PropsRelBag(copied, last.pre.rels)

\* The source nodes the copy queries select: the key is not excluded, or the
\* node carries the hash of the excluded fact; and of those, the first per key.
SelectedNodes ==
    {n \in SourceNodes :
        \/ NodeKey(n) \notin ExcludedKeys
        \/ n.ast_hash = FactHash(last.args.changed_chunks, NodeKey(n))}

KeptNodes ==
    {n \in SelectedNodes :
        \A o \in SelectedNodes : NodeKey(o) = NodeKey(n) => n.id <= o.id}

\* C6 (amended): the target holds exactly one node for every key that has a
\* selected source node, a copy of the first of them; it holds no node for a
\* key excluded with another hash; and every source relationship between two
\* kept nodes has exactly one copy between their copies.
C6_CloneCompleteness ==
    CloneIntoEmpty =>
        /\ PropsBag(TargetNodes) = PropsBag(KeptNodes)
        /\ \A t \in TargetNodes : Cardinality(AtKey(TargetNodes, t.branch, NodeKey(t))) = 1
        /\ \A t \in TargetNodes :
              NodeKey(t) \in ExcludedKeys
                 => t.ast_hash = FactHash(last.args.changed_chunks, NodeKey(t))
        /\ PropsRelBag(TargetNodes, rels) = PropsRelBag(KeptNodes, last.pre.rels)

\* C6 witness: a clone into an empty branch left an excluded key out and
\* copied a relationship.
C6_Witness ==
    /\ CloneIntoEmpty
    /\ \E n \in SourceNodes :
          NodeKey(n) \in ExcludedKeys /\ AtKey(nodes, last.args.current_branch, NodeKey(n)) = {}
    /\ \E r \in rels : NodeById(nodes, r.src) \in TargetNodes
                       /\ NodeById(nodes, r.tgt) \in TargetNodes

\* ------------------------------------------------- execute_queries_batch
\* The executor one attempt at a time, with a store that may fail an attempt.
\* A failed session.run leaves the graph as it was: each query runs in its own
\* auto-commit transaction.
max_retries == 3

\* The store fails at most this many attempts of one call.
MaxFailures == 4

RetryForever(retry_count, bound) == "retry"

\* The except branch after retry_count was incremented.
AfterFailure(retry_count, bound) ==
    IF retry_count >= bound THEN "raise" ELSE "retry"

ExecGraphs == {EmptyGraph, FirstImport(FirstImport(EmptyGraph, "main"), "feat")}

\* import_code_chunks_simple on feat against main, for every batch.
ExecInputs ==
    {Args("feat", bi[1], bi[2], "main", NULL, NULL, bi[3]) : bi \in BatchInputs}

\* The call under way: its query list, the graph it started from, and the
\* attempts made so far as <<index of the query, succeeded>>.
NoBatch == [queries |-> <<>>, start |-> EmptyGraph, log |-> <<>>]

InitExec ==
    /\ \E G \in ExecGraphs : nodes = G.nodes /\ rels = G.rels /\ nextId = G.next
    /\ mappings = {}
    /\ calls = 0
    /\ last = NoCall
    /\ pc = "idle"
    /\ job = [i |-> 0, retry_count |-> 0]
    /\ saved_rels = {}
    /\ hist = NoBatch

Failures(log) == Cardinality({k \in 1..Len(log) : ~log[k][2]})

\* import_code_chunks_simple up to the call of execute_queries_batch.
BeginBatch ==
    /\ pc = "idle"
    /\ \E a \in ExecInputs :
          LET qs == GenerateCypher(a.chunks, a.branch, a.batch_size, a.main,
                                   a.base, a.pr, a.deleted)
          IN  /\ hist' = [queries |-> qs, start |-> Graph, log |-> <<>>]
              /\ pc' = IF qs = <<>> THEN "returned" ELSE "running"
              /\ Record("batch", a)
    /\ job' = [i |-> 1, retry_count |-> 0]
    /\ UNCHANGED <<nodes, rels, nextId, mappings, saved_rels>>

\* session.run and result.consume succeed: break, next query.
AttemptSucceeds ==
    /\ pc = "running" /\ job.retry_count < max_retries
    /\ LET G == ExecQuery(Graph, hist.queries[job.i])
       IN  nodes' = G.nodes /\ rels' = G.rels /\ nextId' = G.next
    /\ hist' = [hist EXCEPT !.log = Append(@, <<job.i, TRUE>>)]
    /\ job' = [i |-> job.i + 1, retry_count |-> 0]
    /\ pc' = IF job.i = Len(hist.queries) THEN "returned" ELSE "running"
    /\ UNCHANGED <<mappings, calls, last, saved_rels>>

\* session.run raises: count the failure, raise at the bound, else retry.
AttemptFails ==
    /\ pc = "running" /\ job.retry_count < max_retries
    /\ Failures(hist.log) < MaxFailures
    /\ hist' = [hist EXCEPT !.log = Append(@, <<job.i, FALSE>>)]
    /\ LET retry_count == job.retry_count + 1
       IN  CASE AfterFailure(retry_count, max_retries) = "raise" ->
                  job' = [job EXCEPT !.retry_count = retry_count] /\ pc' = "raised"
             [] retry_count < max_retries ->
                  job' = [job EXCEPT !.retry_count = retry_count] /\ pc' = pc
             [] OTHER ->
                  \* the while condition fails without a raise: next query
                  /\ job' = [i |-> job.i + 1, retry_count |-> 0]
                  /\ pc' = IF job.i = Len(hist.queries) THEN "returned" ELSE "running"
    /\ UNCHANGED <<nodes, rels, nextId, mappings, calls, last, saved_rels>>

NextExec == BeginBatch \/ AttemptSucceeds \/ AttemptFails

SpecExec == InitExec /\ [][NextExec]_vars

AttemptsOf(k) == {j \in 1..Len(hist.log) : hist.log[j][1] = k}

Succeeded == {hist.log[j][1] : j \in {x \in 1..Len(hist.log) : hist.log[x][2]}}

\* C11: the queries are attempted in list order; each at most max_retries
\* times and never again after its first success; when every attempt of a
\* query failed the call raises with no later query attempted, and the graph
\* is the one the queries that succeeded left (no rollback).
C11_BatchExecutor ==
    LET log == hist.log
        n == Len(hist.queries)
    IN  /\ \A j \in 1..Len(log) : log[j][1] \in 1..n
        /\ \A j \in 1..(Len(log) - 1) :
              /\ log[j][1] <= log[j + 1][1]
              /\ log[j + 1][1] <= log[j][1] + 1
              /\ log[j][2] <=> (log[j + 1][1] = log[j][1] + 1)
        /\ Len(log) > 0 => log[1][1] = 1
        /\ \A k \in 1..n : Cardinality(AttemptsOf(k)) <= max_retries
        /\ pc = "raised" =>
              /\ Succeeded = 1..(job.i - 1)
              /\ Cardinality(AttemptsOf(job.i)) = max_retries
              /\ \A k \in (job.i + 1)..n : AttemptsOf(k) = {}
              /\ Graph = ExecuteQueriesBatch(hist.start, SubSeq(hist.queries, 1, job.i - 1))
        /\ pc = "returned" =>
              /\ Succeeded = 1..n
              /\ Graph = ExecuteQueriesBatch(hist.start, hist.queries)

\* C11 witness: a call that raised after an earlier query had been retried
\* and applied.
C11_Witness ==
    /\ pc = "raised"
    /\ job.i > 1
    /\ \E k \in 1..(job.i - 1) : Cardinality(AttemptsOf(k)) > 1
    /\ Graph # hist.start
    /\ job.i < Len(hist.queries)

\* ------------------------------------------- the import entry points, traced
\* The methods of the service that reach the store during one import call, in
\* call order; hist holds them for the last call.
AlwaysChunks(chunks) == FALSE

\* `if not chunks: return` of both entry points.
NoChunks(chunks) == chunks = <<>>

StoreCalls(op, a) ==
    IF NoChunks(a.chunks) THEN <<>>
    ELSE IF op = "simple"
         THEN <<"create_indexes", "execute_queries_batch">>
         ELSE <<"create_indexes", "save_changed_nodes_relationships",
                "import_changed_chunk_nodes_only",
                "restore_changed_nodes_relationships",
                "import_changed_chunk_relationships",
                "remove_duplicate_relationships">>

\* Calls with and without chunks, with and without declared deletions. A call
\* without chunks names no branch: the branch is read from chunks[0].
CallArgs ==
    {Args(c[1], ch, 1, c[2], c[3], c[4], d) :
        c \in Configs, ch \in {<<>>, <<ChunkB(2)>>}, d \in {<<>>, <<DeletedMB>>}}

\* A feature branch imported as a pull request, without comparison branch.
PullRequestBranch ==
    ImportCodeChunksSimple(FirstImport(EmptyGraph, "main"),
        Args("feat", FullBatch, MaxBatchSize, NULL, NULL, "pr1", <<>>))

CallGraphs == InitGraphs \cup {PullRequestBranch}

InitCalls ==
    /\ \E G \in CallGraphs : nodes = G.nodes /\ rels = G.rels /\ nextId = G.next
    /\ mappings = {}
    /\ calls = 0
    /\ last = NoCall
    /\ pc = "idle"
    /\ job = NoArgs
    /\ saved_rels = {}
    /\ hist = <<>>

\* import_code_chunks_simple, from its first line.
CallImportSimple ==
    /\ pc = "idle" /\ calls < MaxCalls
    /\ \E a \in CallArgs :
          LET G == ImportCodeChunksSimple(Graph, a)
          IN  /\ nodes' = G.nodes
              /\ rels' = G.rels
              /\ nextId' = G.next
              /\ hist' = StoreCalls("simple", a)
              /\ Record("simple", a)
    /\ UNCHANGED <<mappings, pc, job, saved_rels>>

\* import_code_chunks, from its first line.
CallImport ==
    /\ pc = "idle" /\ calls < MaxCalls
    /\ \E a \in CallArgs :
          LET G == ImportCodeChunks(Graph, a)
          IN  /\ nodes' = G.nodes
              /\ rels' = G.rels
              /\ nextId' = G.next
              /\ hist' = StoreCalls("facts", a)
              /\ Record("facts", a)
    /\ UNCHANGED <<mappings, pc, job, saved_rels>>

NextCalls == CallImportSimple \/ CallImport

SpecCalls == InitCalls /\ [][NextCalls]_vars

\* C12: an import call (either mode) with an empty chunk list leaves the
\* graph as it was and reaches the store with no operation at all, whatever
\* the branch configuration and the declared deletions.
C12_EmptyInputNoOp ==
    (last.op \in {"simple", "facts"} /\ last.args.chunks = <<>>) =>
        /\ Graph = last.pre
        /\ hist = <<>>

\* C12 witness: an empty call with declared deletions on a populated graph.
C12_Witness ==
    /\ last.op = "facts"
    /\ last.args.chunks = <<>>
    /\ last.args.deleted # <<>>
    /\ last.args.main = "main"
    /\ nodes # {}

\* C13 (as stated): a CALL edge A -> B whose target is in the batch and whose
\* source is not leaves, after import_code_chunks_simple, no CALL edge from
\* A's node to a node at B's key. Stated here for the calls that carry a
\* pull-request id, where the branch holds the nodes of that pull request.
C13_SimpleDropsIncomingAsStated ==
    (last.op = "simple" /\ last.args.chunks # <<>> /\ last.args.pr # NULL) =>
        \A r \in last.pre.rels :
            LET A == NodeById(last.pre.nodes, r.src)
                B == NodeById(last.pre.nodes, r.tgt)
                keys == ChangedKeys(last.args.chunks)
            IN  (/\ r.type = "CALL"
                 /\ InBranch(A, last.args.branch) /\ NodeKey(A) \notin keys
                 /\ InBranch(B, last.args.branch) /\ NodeKey(B) \in keys)
                => RelsFromTo(rels, A.id, AtKey(nodes, last.args.branch, NodeKey(B)), "CALL") = {}

\* ------------------------------------------------------ delete_branch_nodes
\* A delete that ignores the pull-request id it is given.
DeleteWholeBranch(St, project_id, branch_name, pull_request_id) ==
    LET D == {n \in St.nodes : n.project_id = project_id /\ n.branch = branch_name}
    IN  [store |-> Store(DetachDelete([nodes |-> St.nodes, rels |-> St.rels, next |-> St.next], D),
                         St.mappings),
         deleted_count |-> Cardinality(D)]

\* delete_branch_nodes: the store after the call and the count it returns.
\* MATCH (n {project_id, branch}) has no label, so without a pull-request id
\* it also binds the NodeMapping rows of the branch; they carry no
\* pull_request_id and are out of reach of the other query.
DeleteBranchNodes(St, project_id, branch_name, pull_request_id) ==
    LET D == IF pull_request_id # NULL
             THEN {n \in St.nodes : /\ n.project_id = project_id
                                    /\ n.branch = branch_name
                                    /\ n.pull_request_id = pull_request_id}
             ELSE {n \in St.nodes : n.project_id = project_id /\ n.branch = branch_name}
        DM == IF pull_request_id # NULL THEN {}
              ELSE {mp \in St.mappings : mp.project_id = project_id /\ mp.branch = branch_name}
        G == DetachDelete([nodes |-> St.nodes, rels |-> St.rels, next |-> St.next], D)
    IN  [store |-> Store(G, St.mappings \ DM),
         deleted_count |-> Cardinality(D) + Cardinality(DM)]

\* ------------------------------------------------- one writer, four operations
\* The calls one writer makes in a row.
MaxWrites == 2

Projects == {PROJECT, "2"}

WriterImports ==
    {Args(c[1], bi[1], bi[2], c[2], c[3], c[4], bi[3]) :
        c \in {<<"feat", "main", NULL, NULL>>, <<"feat", NULL, NULL, "pr1">>,
               <<"main", NULL, NULL, NULL>>},
        bi \in {<<<<ChunkB(2)>>, 1, <<>>>>, <<<<ChunkA>>, 1, <<DeletedMB>>>>}}

WriterClones ==
    {CloneArgs("main", "feat", ch, MaxPageSize, MaxPageSize, f) :
        ch \in {<<>>, <<ChunkB(2)>>}, f \in {"none", "relationships"}}

DeleteArgs ==
    {[project_id |-> p, branch_name |-> b, pull_request_id |-> pr] :
        p \in Projects, b \in Branches, pr \in {NULL, "pr1"}}

WriterGraphs == {FirstImport(EmptyGraph, "main"), PullRequestBranch}

InitWriter ==
    /\ \E G \in WriterGraphs : nodes = G.nodes /\ rels = G.rels /\ nextId = G.next
    /\ mappings = {}
    /\ calls = 0
    /\ last = NoCall
    /\ pc = "idle"
    /\ job = NoArgs
    /\ saved_rels = {}
    /\ hist = NoRun

Written(op, a, St, result) ==
    /\ nodes' = St.nodes
    /\ rels' = St.rels
    /\ nextId' = St.next
    /\ mappings' = St.mappings
    /\ calls' = calls + 1
    /\ last' = [op |-> op, args |-> a, pre |-> Store(Graph, mappings), result |-> result]
    /\ UNCHANGED <<pc, job, saved_rels, hist>>

WriterImportSimple ==
    /\ calls < MaxWrites
    /\ \E a \in WriterImports :
          Written("simple", a, Store(ImportCodeChunksSimple(Graph, a), mappings), NULL)

WriterImport ==
    /\ calls < MaxWrites
    /\ \E a \in WriterImports :
          Written("facts", a, Store(ImportCodeChunks(Graph, a), mappings), NULL)

WriterClone ==
    /\ calls < MaxWrites
    /\ \E a \in WriterClones :
          Written("clone", a, CopyUnchangedNodesFromMain(Store(Graph, mappings), a), NULL)

\* delete_branch_nodes(project_id, branch_name, pull_request_id)
DeleteBranch ==
    /\ calls < MaxWrites
    /\ \E a \in DeleteArgs :
          LET out == DeleteBranchNodes(Store(Graph, mappings), a.project_id,
                                       a.branch_name, a.pull_request_id)
          IN  Written("delete", a, out.store, out.deleted_count)

NextWriter == WriterImportSimple \/ WriterImport \/ WriterClone \/ DeleteBranch

SpecWriter == InitWriter /\ [][NextWriter]_vars

\* C14 (as stated): whatever calls the writer made, no branch holds two nodes
\* without pull-request id at one identity key, tombstones included.
C14_IdentityUniquenessAsStated ==
    \A n \in nodes :
        n.pull_request_id = NULL =>
            Cardinality(Unscoped(AtKey(nodes, n.branch, NodeKey(n)))) <= 1

\* The nodes a delete_branch_nodes call is to remove: those of the project and
\* branch, with a pull-request id only those carrying it.
DeleteTargets(N, a) ==
    {n \in N : /\ n.project_id = a.project_id /\ n.branch = a.branch_name
               /\ (a.pull_request_id # NULL => n.pull_request_id = a.pull_request_id)}

\* C15: delete_branch_nodes without pull-request id removes every node of
\* (project, branch), with one only the nodes of the branch carrying that id;
\* every relationship incident to a removed node goes with it and no other
\* does, every other node is left as it was, and the count returned is the
\* number of store nodes removed (NodeMapping rows of the branch included).
C15_DeleteBranch ==
    last.op = "delete" =>
        LET D == DeleteTargets(last.pre.nodes, last.args)
            DM == last.pre.mappings \ mappings
        IN  /\ nodes = last.pre.nodes \ D
            /\ rels = {r \in last.pre.rels : r.src \notin NodeIds(D) /\ r.tgt \notin NodeIds(D)}
            /\ last.result = Cardinality(D) + Cardinality(DM)
            /\ mappings \subseteq last.pre.mappings
            /\ \A mp \in DM : /\ last.args.pull_request_id = NULL
                              /\ mp.project_id = last.args.project_id
                              /\ mp.branch = last.args.branch_name
            /\ \A n \in last.pre.nodes :
                  (n.project_id # last.args.project_id \/ n.branch # last.args.branch_name)
                  => n \in nodes

\* C15 witness: a delete by pull-request id that removed some nodes of the
\* branch with their relationships and left other nodes of the branch.
C15_Witness ==
    /\ last.op = "delete"
    /\ last.args.pull_request_id # NULL
    /\ last.result > 0
    /\ \E n \in nodes : n.branch = last.args.branch_name
    /\ \E n \in nodes : n.branch # last.args.branch_name
    /\ rels # last.pre.rels

\* A delete query that names the identity of a node_data item.
DeleteCovers(d, it) ==
    IF d.op = "delete_class"
    THEN it.method_name = NULL /\ it.class_name \in d.items
    ELSE /\ d.op = "delete_method"
         /\ it.method_name # NULL
         /\ <<it.class_name, it.method_name>> \in d.items

\* C16: in the generated list every tombstone, delete and create query comes
\* before every relationship query, and every item of a create query is named
\* by a delete query that comes before it in the same sub-batch (no create
\* query between them) and by none after it.
C16_PhaseOrdering ==
    LET qs == hist.queries
    IN  /\ \A i \in DOMAIN qs : \A j \in DOMAIN qs :
              (IsRelQuery(qs[i]) /\ ~IsRelQuery(qs[j])) => j < i
        /\ \A j \in DOMAIN qs :
              qs[j].op = "create" =>
                 \A k \in DOMAIN qs[j].items :
                    /\ \E i \in 1..(j - 1) :
                          /\ DeleteCovers(qs[i], qs[j].items[k])
                          /\ \A m \in i..(j - 1) : qs[m].op # "create"
                    /\ \A i \in (j + 1)..Len(qs) : ~DeleteCovers(qs[i], qs[j].items[k])

\* C16 witness: a list of several sub-batches with relationship queries.
C16_Witness ==
    LET qs == hist.queries
    IN  /\ Cardinality({j \in DOMAIN qs : qs[j].op = "create"}) > 1
        /\ \E j \in DOMAIN qs : qs[j].op = "create" /\ Len(qs[j].items) > 2
        /\ Cardinality({j \in DOMAIN qs : IsRelQuery(qs[j])}) > 1

\* ------------------------------------------------ three branches, one import
\* A feature branch with a base branch (dev) apart from main.
AllBranches == Branches \cup {"dev"}

\* ClassB declared as implementing ClassC.
ChunkBI == ClassFact("B", 1, <<MethodFact("mB", 1, {}, {"C"})>>, {"C"}, {})

\* What a branch holds at the start: nothing, the sample program with
\* methodB at hash 1 or 2, or the sample program imported as a pull request.
BranchSeeds == {"none", "h1", "h2", "pr"}

Seeded(G, b, s) ==
    IF s = "none" THEN G
    ELSE ImportCodeChunksSimple(G,
            Args(b, <<ChunkA, ChunkB(IF s = "h2" THEN 2 ELSE 1), ChunkC>>, MaxBatchSize,
                 NULL, NULL, IF s = "pr" THEN "pr1" ELSE NULL, <<>>))

BranchGraphs ==
    {Seeded(Seeded(Seeded(EmptyGraph, "main", m), "dev", d), "feat", f) :
        m \in BranchSeeds, d \in BranchSeeds, f \in {"none", "h1"}}

\* Imports into feat under every combination of main_branch and base_branch.
BranchArgs ==
    {Args("feat", ch, 1, m, b, NULL, <<>>) :
        ch \in {<<ChunkA>>, <<ChunkB(1)>>, <<ChunkB(2)>>, <<ChunkBI>>},
        m \in {NULL, "main"}, b \in {NULL, "dev", "feat"}}

InitBranches ==
    /\ \E G \in BranchGraphs : nodes = G.nodes /\ rels = G.rels /\ nextId = G.next
    /\ mappings = {}
    /\ calls = 0
    /\ last = NoCall
    /\ pc = "idle"
    /\ job = NoArgs
    /\ saved_rels = {}
    /\ hist = NoRun

BranchImportSimple ==
    /\ pc = "idle"
    /\ \E a \in BranchArgs :
          LET G == ImportCodeChunksSimple(Graph, a)
          IN  /\ nodes' = G.nodes
              /\ rels' = G.rels
              /\ nextId' = G.next
              /\ Record("simple", a)
    /\ pc' = "returned"
    /\ UNCHANGED <<mappings, job, saved_rels, hist>>

BranchImport ==
    /\ pc = "idle"
    /\ \E a \in BranchArgs :
          LET G == ImportCodeChunks(Graph, a)
          IN  /\ nodes' = G.nodes
              /\ rels' = G.rels
              /\ nextId' = G.next
              /\ Record("facts", a)
    /\ pc' = "returned"
    /\ UNCHANGED <<mappings, job, saved_rels, hist>>

NextBranches == BranchImportSimple \/ BranchImport

SpecBranches == InitBranches /\ [][NextBranches]_vars

\* The rows of the edge phase as <<type, source, target>>; an endpoint is a
\* class name and a method name, NULL where the row has none.
EdgeRows(chunks) ==
    {[type |-> "CALL", source |-> <<r.source_class, r.source_method>>,
      target |-> <<r.target_class, r.target_method>>] : r \in CallRels(chunks)}
    \cup {[type |-> "IMPLEMENT", source |-> <<r.source_class, r.source_method>>,
           target |-> <<r.target_class, r.target_method>>]
            : r \in ClassImplementRels(chunks) \cup MethodImplementRels(chunks)}
    \cup {[type |-> "USE", source |-> <<r.source_class, r.source_method>>,
           target |-> <<r.target_class, r.target_method>>]
            : r \in ClassUseRels(chunks) \cup MethodUseRels(chunks)}

\* The nodes of one branch an endpoint names: by method name alone, by class
\* name (the class-level node), or by both.
NamedBy(N, branch, e) ==
    IF e[1] = NULL THEN MatchMethod(N, branch, e[2])
    ELSE IF e[2] = NULL THEN MatchClass(N, branch, e[1])
    ELSE MatchKey(N, branch, e[1], e[2])

\* The base branch the queries of the last call were generated with.
EffectiveBase ==
    IF last.op = "facts" THEN DefaultBase(last.args.branch, last.args.base)
    ELSE last.args.base

EdgePairs(S, T) == {<<s, t>> : s \in S, t \in T}

\* C17 (as stated): every row of the edge phase links the current-branch node
\* at its source key to the node at its target key in the current branch, or
\* else in base, or else in main; no other edge is created.
C17_EdgeTargetFallbackAsStated ==
    (last.op = "simple" /\ last.args.chunks # <<>>) =>
        LET a == last.args
            Src(row) == NamedBy(nodes, a.branch, row.source)
            Tgt(row) == Coalesce(NamedBy(nodes, a.branch, row.target),
                                 Coalesce(NamedBy(nodes, a.base, row.target),
                                          NamedBy(nodes, a.main, row.target)))
        IN  \A row \in EdgeRows(a.chunks) :
               \A p \in EdgePairs(Src(row), Tgt(row)) :
                  RelsFromTo(rels, p[1].id, {p[2]}, row.type) # {}

\* C17 (amended): without main_branch source and target are the current-branch
\* nodes and nothing else is tried; with main_branch the target is the node in
\* base_branch if that is given and holds one, else the node in main_branch,
\* and the source of CALL and USE is the current-branch node while the source
\* of IMPLEMENT is resolved like a target. Each resolved pair has exactly one
\* edge of the row's type, and the call links nothing else to a node it made.
C17_EdgeTargetFallback ==
    (last.op \in {"simple", "facts"} /\ last.args.chunks # <<>>) =>
        LET a == last.args
            Fallback(e) == Coalesce(NamedBy(nodes, EffectiveBase, e),
                                    NamedBy(nodes, a.main, e))
            Src(row) == IF a.main # NULL /\ row.type = "IMPLEMENT"
                        THEN Fallback(row.source)
                        ELSE NamedBy(nodes, a.branch, row.source)
            Tgt(row) == IF a.main # NULL THEN Fallback(row.target)
                        ELSE NamedBy(nodes, a.branch, row.target)
            Resolved(ty) == UNION {EdgePairs(Src(row), Tgt(row))
                                    : row \in {x \in EdgeRows(a.chunks) : x.type = ty}}
        IN  /\ \A row \in EdgeRows(a.chunks) :
                  \A p \in EdgePairs(Src(row), Tgt(row)) :
                     Cardinality(RelsFromTo(rels, p[1].id, {p[2]}, row.type)) = 1
            /\ last.op = "simple" =>
                  \A r \in rels \ last.pre.rels :
                     \E p \in Resolved(r.type) : p[1].id = r.src /\ p[2].id = r.tgt

\* C17 witness: with main and base configured, a node created in feat was
\* linked to the base-branch node although feat and main hold the target too.
C17_Witness ==
    /\ last.op = "simple"
    /\ last.args.main = "main" /\ last.args.base = "dev"
    /\ \E r \in rels :
          /\ NodeById(nodes, r.src) \in CreatedByLast
          /\ NodeById(nodes, r.tgt).branch = "dev"
          /\ LET t == NodeById(nodes, r.tgt)
             IN  /\ AtKey(nodes, "feat", NodeKey(t)) # {}
                 /\ AtKey(nodes, "main", NodeKey(t)) # {}

\* C18 (as stated): with main and base both configured (base another branch
\* than the one imported into) and a node without pull-request id at the
\* fact's key in base, a node is created for the fact exactly when its hash
\* differs from the base node's hash, whatever main holds.
C18_BaseOutranksMainAsStated ==
    (/\ ImportDone
     /\ last.args.main # NULL /\ last.args.base # NULL
     /\ last.args.base # last.args.branch) =>
        \A f \in FactItems(last.args.chunks) :
            LET B == Unscoped(AtKey(last.pre.nodes, last.args.base, f.key))
                created == AtKey(CreatedByLast, last.args.branch, f.key)
            IN  B # {} =>
                   /\ (\A b \in B : b.ast_hash = f.hash) => created = {}
                   /\ (\A b \in B : b.ast_hash # f.hash) => created # {}

\* C19 (as stated): with base configured (another branch than the one
\* imported into) and main not, no node is created for a method-level fact
\* whose hash equals the hash of the base node at its key.
C19_BaseOnlyComparisonAsStated ==
    (/\ ImportDone
     /\ last.args.main = NULL /\ last.args.base # NULL
     /\ last.args.base # last.args.branch) =>
        \A f \in FactItems(last.args.chunks) :
            LET B == Unscoped(AtKey(last.pre.nodes, last.args.base, f.key))
            IN  (f.key[2] # NULL /\ B # {} /\ \A b \in B : b.ast_hash = f.hash)
                => AtKey(CreatedByLast, last.args.branch, f.key) = {}

\* C20 (as stated): with main and base configured (base another branch than
\* the one imported into), a fact whose only nodes in base carry a
\* pull-request id gets a node created, whatever their hash.
C20_LookupIgnoresPullRequestsAsStated ==
    (/\ ImportDone
     /\ last.args.main # NULL /\ last.args.base # NULL
     /\ last.args.base # last.args.branch) =>
        \A f \in FactItems(last.args.chunks) :
            LET B == AtKey(last.pre.nodes, last.args.base, f.key)
            IN  (B # {} /\ Unscoped(B) = {})
                => AtKey(CreatedByLast, last.args.branch, f.key) # {}

\* ------------------------------------------------ status of created nodes
\* A fact as the caller hands it in: Method and CodeChunk declare no status, so
\* a caller that wants one sets it as an attribute of the object.
Attach(fact, status) ==
    IF status = NULL THEN fact
    ELSE [f \in DOMAIN fact \cup {"status"} |-> IF f = "status" THEN status ELSE fact[f]]

\* A status that is ACTIVE whatever the caller attached.
AlwaysActive(fact, base_branch, base_version) == "ACTIVE"

\* class_status / method_status: getattr(fact, 'status', 'ACTIVE') when both
\* base_branch and base_version are given, 'ACTIVE' otherwise.
NodeStatus(fact, base_branch, base_version) ==
    IF base_branch # NULL /\ base_version # NULL
    THEN (IF "status" \in DOMAIN fact THEN fact.status ELSE "ACTIVE")
    ELSE "ACTIVE"

\* The 'status' entries of node_data, in the order of NodeData.
NodeStatuses(batch, base, base_version) ==
    Flatten([j \in 1..Len(batch) |->
        <<NodeStatus(batch[j], base, base_version)>> \o
        [i \in 1..Len(batch[j].methods) |->
            NodeStatus(batch[j].methods[i], base, base_version)]])

\* The create query of a sub-batch when base_version is passed along.
CreateQueryVersioned(batch, branch, main, base, base_version, pr) ==
    LET q == CreateQuery(batch, branch, main, base, pr)
        st == NodeStatuses(batch, base, base_version)
    IN  [q EXCEPT !.items = [k \in DOMAIN q.items |-> [q.items[k] EXCEPT !.status = st[k]]]]

\* generate_cypher_from_chunks with its base_version argument.
GenerateCypherVersioned(chunks, branch, batch_size, main, base, base_version, pr, deleted) ==
    LET sb == SubBatches(chunks, batch_size)
    IN  TombstoneQueries(deleted, branch)
        \o Flatten([k \in 1..Len(sb) |->
              DeleteQueries(sb[k], branch)
              \o <<CreateQueryVersioned(sb[k], branch, main, base, base_version, pr)>>])
        \o EdgePhase(chunks, branch, batch_size, main, base)

\* import_code_chunks_simple(..., base_version=base_version)
ImportSimpleVersioned(G, a) ==
    IF a.chunks = <<>> THEN G
    ELSE ExecuteQueriesBatch(G,
            GenerateCypherVersioned(a.chunks, a.branch, a.batch_size, a.main, a.base,
                                    a.base_version, a.pr, a.deleted))

\* import_code_chunks(..., base_version=base_version): only the node step
\* hands base_version to the generator.
ImportVersioned(G, a) ==
    IF a.chunks = <<>> THEN G
    ELSE LET saved == SaveRels(G, a.branch, a.chunks)
             G2 == ExecuteQueriesBatch(G,
                      SelectSeq(GenerateCypherVersioned(a.chunks, a.branch, a.batch_size,
                                    a.main, DefaultBase(a.branch, a.base), a.base_version,
                                    a.pr, a.deleted),
                                NodeQueryFilter))
             G3 == RestoreRels(G2, a.branch, saved)
             G4 == ImportRelationships(G3, a)
         IN  RemoveDuplicateRelationships(G4, a.branch)

Statuses == {NULL, "ACTIVE", "MODIFIED"}

\* ClassB with one method, each with the status the caller attached, if any.
StatusChunk(h, cs, ms) ==
    Attach(ClassFact("B", 1, <<Attach(MethodFact("mB", h, {}, {"C"}), ms)>>, {}, {}), cs)

StatusArgs ==
    {[branch |-> "feat", chunks |-> <<StatusChunk(h, cs, ms)>>, batch_size |-> 1,
      main |-> m, base |-> b, pr |-> NULL, deleted |-> <<>>, base_version |-> v] :
        h \in {1, 2}, cs \in Statuses, ms \in Statuses,
        m \in {NULL, "main"}, b \in {NULL, "main"}, v \in {NULL, "v1"}}

InitStatus ==
    /\ \E G \in InitGraphs : nodes = G.nodes /\ rels = G.rels /\ nextId = G.next
    /\ mappings = {}
    /\ calls = 0
    /\ last = NoCall
    /\ pc = "idle"
    /\ job = NoArgs
    /\ saved_rels = {}
    /\ hist = NoRun

StatusImportSimple ==
    /\ pc = "idle"
    /\ \E a \in StatusArgs :
          LET G == ImportSimpleVersioned(Graph, a)
          IN  /\ nodes' = G.nodes
              /\ rels' = G.rels
              /\ nextId' = G.next
              /\ Record("simple", a)
    /\ pc' = "returned"
    /\ UNCHANGED <<mappings, job, saved_rels, hist>>

StatusImport ==
    /\ pc = "idle"
    /\ \E a \in StatusArgs :
          LET G == ImportVersioned(Graph, a)
          IN  /\ nodes' = G.nodes
              /\ rels' = G.rels
              /\ nextId' = G.next
              /\ Record("facts", a)
    /\ pc' = "returned"
    /\ UNCHANGED <<mappings, job, saved_rels, hist>>

NextStatus == StatusImportSimple \/ StatusImport

SpecStatus == InitStatus /\ [][NextStatus]_vars

\* The status the caller attached to the fact a created node stands for,
\* ACTIVE when the caller attached none.
AttachedStatus(n) ==
    LET c == last.args.chunks[1]
        f == IF n.method_name = NULL THEN c ELSE c.methods[1]
    IN  IF "status" \in DOMAIN f THEN f.status ELSE "ACTIVE"

\* The base branch the generator sees: import_code_chunks fills in the branch.
GeneratorBase ==
    IF last.op = "facts" THEN DefaultBase(last.args.branch, last.args.base)
    ELSE last.args.base

\* C21 (as stated): every node an import creates for a fact has the status the
\* caller attached to the fact, ACTIVE when the caller attached none.
C21_StatusIsCallerInputAsStated ==
    ImportDone => \A n \in CreatedByLast : n.status = AttachedStatus(n)

\* C21 (amended): a created node has the status the caller attached (ACTIVE
\* when none) if a base branch and a base version both reach the generator, and
\* ACTIVE otherwise; the hash of the fact plays no part.
C21_StatusIsCallerInput ==
    ImportDone =>
        \A n \in CreatedByLast :
            n.status = IF GeneratorBase # NULL /\ last.args.base_version # NULL
                       THEN AttachedStatus(n) ELSE "ACTIVE"

\* C21 witness: a MODIFIED fact imported with a base version becomes a MODIFIED
\* node, and one imported without a base version becomes an ACTIVE node.
C21_Witness ==
    /\ ImportDone
    /\ last.args.base_version # NULL
    /\ GeneratorBase # NULL
    /\ \E n \in CreatedByLast : n.status = "MODIFIED" /\ AttachedStatus(n) = "MODIFIED"

\* ------------------------------------- save, replace, restore as three calls
\* The three helpers called by hand on one branch, with a node-only import
\* of any batch in between.
BoundaryReplacements ==
    {Args(NULL, ch, 1, m, NULL, p, <<>>) :
        ch \in HelperChunks \cup {<<ChunkA>>, <<ChunkU(1)>>},
        m \in {NULL, "main"}, p \in {NULL, "pr1"}}

\* The sample program on feat with a class-level user of ClassC next to it.
UserGraph ==
    ImportCodeChunksSimple(FirstImport(EmptyGraph, "feat"),
        Args("feat", <<ChunkU(1)>>, 1, NULL, NULL, NULL, <<>>))

InitBoundary ==
    /\ \E G \in CallGraphs \cup {UserGraph} : nodes = G.nodes /\ rels = G.rels /\ nextId = G.next
    /\ mappings = {}
    /\ calls = 0
    /\ last = NoCall
    /\ pc = "idle"
    /\ job = NoArgs
    /\ saved_rels = {}
    /\ hist = EmptyGraph

\* saved_rels = save_changed_nodes_relationships(project_id, branch, changed_chunks)
BoundarySave ==
    /\ pc = "idle"
    /\ \E b \in Branches, ch \in HelperChunks :
          /\ saved_rels' = SaveRels(Graph, b, ch)
          /\ job' = HelperArgs(b, ch)
          /\ Record("save", HelperArgs(b, ch))
    /\ pc' = "saved"
    /\ UNCHANGED <<nodes, rels, nextId, mappings, hist>>

\* import_changed_chunk_nodes_only(chunks, main_branch, pull_request_id=...)
BoundaryReplace ==
    /\ pc = "saved"
    /\ \E x \in BoundaryReplacements :
          LET a == [x EXCEPT !.branch = job.branch]
              G == ImportNodesOnly(Graph, a)
          IN  /\ nodes' = G.nodes
              /\ rels' = G.rels
              /\ nextId' = G.next
              /\ Record("nodes", a)
    /\ pc' = "replaced"
    /\ UNCHANGED <<mappings, job, saved_rels, hist>>

\* restore_changed_nodes_relationships(project_id, branch, saved_rels, changed_chunks)
BoundaryRestore ==
    /\ pc \in {"saved", "replaced"}
    /\ LET G == RestoreRels(Graph, job.branch, saved_rels)
       IN  /\ nodes' = G.nodes
           /\ rels' = G.rels
           /\ nextId' = G.next
    /\ hist' = Graph
    /\ Record("restore", job)
    /\ pc' = "restored"
    /\ UNCHANGED <<mappings, job, saved_rels>>

NextBoundary == BoundarySave \/ BoundaryReplace \/ BoundaryRestore

SpecBoundary == InitBoundary /\ [][NextBoundary]_vars

\* The relationships of the saved branch between non-PR-scoped nodes whose
\* source key is in the changed set or not (s) and whose target key is (t).
BoundaryEdges(s, t) ==
    LET keys == ChangedKeys(job.chunks)
    IN  {r \in rels :
            LET u == NodeById(nodes, r.src)
                c == NodeById(nodes, r.tgt)
            IN  /\ InBranch(u, job.branch) /\ InBranch(c, job.branch)
                /\ u.pull_request_id = NULL /\ c.pull_request_id = NULL
                /\ (NodeKey(u) \in keys) = s
                /\ (NodeKey(c) \in keys) = t}

SavedTuples ==
    {<<<<sv.unchanged_class, sv.unchanged_method>>, sv.rel_type,
       <<sv.changed_class, sv.changed_method>>>> : sv \in saved_rels}

\* C22 (as stated): the save returns a tuple (unchangedKey, type, changedKey)
\* for every relationship between non-PR-scoped nodes of the branch with
\* exactly one endpoint key in the changed set, in either direction, and for no
\* other relationship.
C22_SaveBoundaryEdgesAsStated ==
    pc = "saved" =>
        SavedTuples =
            {<<NodeKey(NodeById(nodes, r.src)), r.type, NodeKey(NodeById(nodes, r.tgt))>> :
                r \in BoundaryEdges(FALSE, TRUE)}
            \cup
            {<<NodeKey(NodeById(nodes, r.tgt)), r.type, NodeKey(NodeById(nodes, r.src))>> :
                r \in BoundaryEdges(TRUE, FALSE)}

\* C22 (amended): the save returns one row per relationship that runs from a
\* non-PR-scoped node outside the changed set to a non-PR-scoped node inside it,
\* both in the branch, and nothing for a relationship that leaves a changed
\* node, joins two changed or two unchanged nodes, or touches a PR-scoped node.
C22_SaveBoundaryEdges ==
    pc = "saved" =>
        /\ SavedTuples =
            {<<NodeKey(NodeById(nodes, r.src)), r.type, NodeKey(NodeById(nodes, r.tgt))>> :
                r \in BoundaryEdges(FALSE, TRUE)}
        /\ Cardinality(saved_rels) = Cardinality(BoundaryEdges(FALSE, TRUE))

\* C22 witness: a save that returned a row while the branch also holds a
\* relationship leaving a changed node, for which it returned none.
C22_Witness ==
    /\ pc = "saved"
    /\ saved_rels # {}
    /\ BoundaryEdges(TRUE, FALSE) # {}

\* The nodes a saved row resolves to in the graph the restore started from.
ResolvedEnds(sv) ==
    [unchanged |-> RestoreMatch(hist.nodes, job.branch, sv.unchanged_class, sv.unchanged_method),
     changed |-> RestoreMatch(hist.nodes, job.branch, sv.changed_class, sv.changed_method)]

\* The saved rows that account for a relationship u -> c of a type.
RowsFor(u, c, ty) ==
    {sv \in saved_rels : /\ sv.rel_type = ty
                         /\ u \in ResolvedEnds(sv).unchanged
                         /\ c \in ResolvedEnds(sv).changed}

\* C23: the restore returns, keeps the nodes and the relationships it found,
\* and adds between two nodes one relationship per saved row whose two keys
\* resolve to them among the non-PR-scoped nodes of the branch; a row with an
\* endpoint that resolves to nothing adds nothing and does not keep the other
\* rows from being restored.
C23_RestoreSkipsMissing ==
    pc = "restored" =>
        /\ nodes = hist.nodes
        /\ hist.rels \subseteq rels
        /\ \A r \in rels \ hist.rels :
              RowsFor(NodeById(nodes, r.src), NodeById(nodes, r.tgt), r.type) # {}
        /\ \A u, c \in nodes : \A ty \in RelTypes :
              Cardinality({r \in rels \ hist.rels :
                              r.src = u.id /\ r.tgt = c.id /\ r.type = ty})
                  = Cardinality(RowsFor(u, c, ty))

\* C23 witness: a restore of two saved rows, one whose unchanged endpoint is
\* gone and one that was recreated.
C23_Witness ==
    /\ pc = "restored"
    /\ \E sv \in saved_rels : ResolvedEnds(sv).unchanged = {}
    /\ \E sv \in saved_rels :
          /\ ResolvedEnds(sv).unchanged # {} /\ ResolvedEnds(sv).changed # {}
          /\ \E r \in rels \ hist.rels : r.type = sv.rel_type

\* ------------------------------------------ cross relationships of a clone
ChunkC2 == ClassFact("C", 2, <<>>, {}, {})

\* main holds the sample program and a class-level user of ClassC; feat holds
\* none, some or all of the classes that changed on it.
CrossSeeds == {<<>>, <<ChunkC2>>, <<ChunkB(2)>>, <<ChunkB(2), ChunkC2>>, <<ChunkA, ChunkB(2), ChunkC2>>}

CrossGraphs ==
    {LET M == ImportCodeChunksSimple(FirstImport(EmptyGraph, "main"),
                 Args("main", <<ChunkU(h)>>, 1, NULL, NULL, NULL, <<>>))
     IN  ImportCodeChunksSimple(M, Args("feat", s, MaxBatchSize, NULL, NULL, NULL, <<>>)) :
        h \in {1, 2}, s \in CrossSeeds}

CrossInputs ==
    {CloneArgs("main", "feat", ch, ps[1], ps[2], "none") :
        ch \in {<<>>, <<ChunkB(1)>>, <<ChunkB(2)>>, <<ChunkC2>>, <<ChunkB(2), ChunkC2>>,
                <<ChunkB(1), ChunkC2>>},
        ps \in PageSizes}

InitCross ==
    /\ \E G \in CrossGraphs : nodes = G.nodes /\ rels = G.rels /\ nextId = G.next
    /\ mappings = {}
    /\ calls = 0
    /\ last = NoCall
    /\ pc = "idle"
    /\ job = NoArgs
    /\ saved_rels = {}
    /\ hist = NoRun

\* copy_unchanged_nodes_from_main(project_id, main_branch, current_branch,
\*                                changed_chunks, batch_size, rel_batch_size)
CrossClone ==
    /\ pc = "idle"
    /\ \E a \in CrossInputs :
          LET St == CopyUnchangedNodesFromMain(Store(Graph, mappings), a)
          IN  /\ nodes' = St.nodes
              /\ rels' = St.rels
              /\ nextId' = St.next
              /\ mappings' = St.mappings
              /\ last' = [op |-> "clone", args |-> a, pre |-> Store(Graph, mappings),
                          repeat |-> FALSE, raised |-> CloneRaises(a)]
    /\ calls' = calls + 1
    /\ pc' = "returned"
    /\ UNCHANGED <<job, saved_rels, hist>>

NextCross == CrossClone

SpecCross == InitCross /\ [][NextCross]_vars

\* The copy a clone made of a source node and kept: a node of the target
\* branch created by the call with the properties of the source node.
CopiesOf(s) ==
    {c \in TargetNodes : c.id >= last.pre.next /\ CopiedProps(c) = CopiedProps(s)}

\* The source relationships with a copied source and a target left out.
CrossEdges ==
    {r \in last.pre.rels :
        /\ NodeById(last.pre.nodes, r.src) \in SelectedNodes
        /\ NodeById(last.pre.nodes, r.tgt) \in SourceNodes \ SelectedNodes}

\* C24 (as stated): after a clone with any page size, every source
\* relationship whose source was copied and whose target was left out has a
\* relationship of its type from the copy of the source to each node of the
\* target branch at the target's key; the clone does not raise.
C24_CopyForwardCrossEdgesAsStated ==
    (last.op = "clone") =>
        /\ ~last.raised
        /\ \A r \in CrossEdges :
              \A c \in CopiesOf(NodeById(last.pre.nodes, r.src)) :
                 \A t \in AtKey(nodes, last.args.current_branch,
                                NodeKey(NodeById(last.pre.nodes, r.tgt))) :
                    RelCount(rels, c.id, t.id, r.type) >= 1

\* ------------------------------------------------ get_nodes_by_node_specs
NodeSpec(cls, meth) == [class_name |-> cls, method_name |-> meth]

\* UNWIND $node_specs AS spec MATCH (n {project_id, branch, class_name})
\* WHERE ($pull_request_id IS NULL OR n.pull_request_id = $pull_request_id)
\*   AND (spec.method_name IS NULL OR n.method_name = spec.method_name)
SpecMatches(N, spec, branch, pull_request_id) ==
    {n \in N : /\ InBranch(n, branch) /\ n.class_name = spec.class_name
               /\ (pull_request_id = NULL \/ n.pull_request_id = pull_request_id)
               /\ (spec.method_name = NULL \/ n.method_name = spec.method_name)}

\* get_nodes_by_node_specs: the rows of every spec, in the order of the specs.
GetNodesByNodeSpecs(N, node_specs, branch, pull_request_id) ==
    IF node_specs = <<>> THEN <<>>
    ELSE Flatten([i \in 1..Len(node_specs) |->
            SortById(SpecMatches(N, node_specs[i], branch, pull_request_id))])

NodeSpecs ==
    {NodeSpec("A", "mA"), NodeSpec("B", NULL), NodeSpec("B", "mB"), NodeSpec("C", NULL),
     NodeSpec("X", NULL)}

LookupInputs ==
    {[node_specs |-> s, branch |-> b, pull_request_id |-> p] :
        s \in {<<>>} \cup {<<x>> : x \in NodeSpecs} \cup {<<x, y>> : x, y \in NodeSpecs},
        b \in Branches, p \in {NULL, "pr1"}}

InitLookup ==
    /\ \E G \in CallGraphs : nodes = G.nodes /\ rels = G.rels /\ nextId = G.next
    /\ mappings = {}
    /\ calls = 0
    /\ last = NoCall
    /\ pc = "idle"
    /\ job = NoArgs
    /\ saved_rels = {}
    /\ hist = <<>>

\* hist = get_nodes_by_node_specs(node_specs, project_id, branch, pull_request_id)
Lookup ==
    /\ pc = "idle"
    /\ \E a \in LookupInputs :
          /\ hist' = GetNodesByNodeSpecs(nodes, a.node_specs, a.branch, a.pull_request_id)
          /\ last' = [op |-> "lookup", args |-> a, pre |-> Graph, repeat |-> FALSE]
    /\ calls' = calls + 1
    /\ pc' = "returned"
    /\ UNCHANGED <<nodes, rels, nextId, mappings, job, saved_rels>>

NextLookup == Lookup

SpecLookup == InitLookup /\ [][NextLookup]_vars

\* C25 (as stated): a lookup by one spec without method_name returns only
\* nodes of that class without a method name, and a lookup by one spec with a
\* method_name returns only nodes of that class with that method name.
C25_NullAwareLookupAsStated ==
    (last.op = "lookup" /\ Len(last.args.node_specs) = 1) =>
        \A i \in DOMAIN hist :
            /\ hist[i].class_name = last.args.node_specs[1].class_name
            /\ hist[i].method_name = last.args.node_specs[1].method_name

\* ------------------------------------------ imports over a tombstone
\* feat holds a tombstone for methodB: alone, or (declared deleted in a run
\* that imported ClassA) beside the sample program.
TombstoneSeeds == {"alone", "beside"}

Entombed(G, s) ==
    ImportCodeChunksSimple(IF s = "alone" THEN G ELSE FirstImport(G, "feat"),
        Args("feat", <<ChunkA>>, 1, NULL, NULL, NULL, <<DeletedMB>>))

\* main holds nothing, the sample program with methodB at hash 1 or 2, or the
\* sample program with a tombstone for methodB beside the live node.
TombstoneGraphs ==
    {Entombed(Seeded(EmptyGraph, "main", m), s) :
        m \in {"none", "h1", "h2"}, s \in TombstoneSeeds}
    \cup {Entombed(TombstoneGraph, s) : s \in TombstoneSeeds}

TombstoneArgs ==
    {Args("feat", ch, MaxBatchSize, m, b, p, <<>>) :
        ch \in {<<ChunkB(1)>>, <<ChunkB(2)>>, <<ChunkA, ChunkB(2)>>},
        m \in {NULL, "main"}, b \in {NULL, "main", "feat"}, p \in {NULL, "pr1"}}

InitTombstone ==
    /\ \E G \in TombstoneGraphs : nodes = G.nodes /\ rels = G.rels /\ nextId = G.next
    /\ mappings = {}
    /\ calls = 0
    /\ last = NoCall
    /\ pc = "idle"
    /\ job = NoArgs
    /\ saved_rels = {}
    /\ hist = NoRun

TombstoneImportSimple ==
    /\ pc = "idle"
    /\ \E a \in TombstoneArgs :
          LET G == ImportCodeChunksSimple(Graph, a)
          IN  /\ nodes' = G.nodes
              /\ rels' = G.rels
              /\ nextId' = G.next
              /\ Record("simple", a)
    /\ pc' = "returned"
    /\ UNCHANGED <<mappings, job, saved_rels, hist>>

TombstoneImport ==
    /\ pc = "idle"
    /\ \E a \in TombstoneArgs :
          LET G == ImportCodeChunks(Graph, a)
          IN  /\ nodes' = G.nodes
              /\ rels' = G.rels
              /\ nextId' = G.next
              /\ Record("facts", a)
    /\ pc' = "returned"
    /\ UNCHANGED <<mappings, job, saved_rels, hist>>

NextTombstone == TombstoneImportSimple \/ TombstoneImport

SpecTombstone == InitTombstone /\ [][NextTombstone]_vars

\* The verdict of the Change Detector for a fact of the last call: compared
\* with the non-PR-scoped node at its key in the comparison branch.
Verdict(f) ==
    LET c == ComparisonBranch(last.args)
        found == Unscoped(AtKey(last.pre.nodes, c, f.key))
    IN  IF c = NULL \/ found = {} THEN "NEW"
        ELSE IF \E n \in found : n.ast_hash = f.hash THEN "UNCHANGED"
        ELSE "CHANGED"

\* The tombstones at a key of the branch before the last call.
TombstonesAt(key) ==
    {n \in AtKey(last.pre.nodes, last.args.branch, key) : n.status = "DELETED"}

\* C26 (as stated): when the branch held a tombstone at the identity of a fact
\* of the batch and the fact is NEW or CHANGED, the branch holds after the
\* import exactly one node at that identity, it is not DELETED, and the
\* tombstone is gone. The comparison branch is taken to be another branch
\* than the one imported into, so the verdict does not rest on the tombstone.
C26_TombstoneSlotAsStated ==
    (ImportDone /\ ComparisonBranch(last.args) # last.args.branch) =>
        \A f \in FactItems(last.args.chunks) :
            (TombstonesAt(f.key) # {} /\ Verdict(f) \in {"NEW", "CHANGED"}) =>
                LET S == AtKey(nodes, last.args.branch, f.key)
                IN  /\ Cardinality(S) = 1
                    /\ \A n \in S : n.status # "DELETED"
                    /\ TombstonesAt(f.key) \cap nodes = {}

\* ------------------------------ execute_queries_batch, max_retries an argument
MaxRetries == 2

\* Values of max_retries a caller may pass, zero and a negative one included.
RetryBounds == (-1)..MaxRetries

\* A loop that makes its first attempt whatever the bound.
AttemptFirst(retry_count, bound) == retry_count = 0 \/ retry_count < bound

\* while retry_count < max_retries
WhileRetry(retry_count, bound) == retry_count < bound

InitRetries ==
    /\ \E G \in ExecGraphs : nodes = G.nodes /\ rels = G.rels /\ nextId = G.next
    /\ mappings = {}
    /\ calls = 0
    /\ last = NoCall
    /\ pc = "idle"
    /\ job = [i |-> 0, retry_count |-> 0, max_retries |-> max_retries]
    /\ saved_rels = {}
    /\ hist = NoBatch

\* execute_queries_batch(queries_with_params, max_retries) is entered.
RetriesBegin ==
    /\ pc = "idle"
    /\ \E a \in ExecInputs, bound \in RetryBounds :
          LET qs == GenerateCypher(a.chunks, a.branch, a.batch_size, a.main,
                                   a.base, a.pr, a.deleted)
          IN  /\ hist' = [queries |-> qs, start |-> Graph, log |-> <<>>]
              /\ pc' = IF qs = <<>> THEN "returned" ELSE "running"
              /\ job' = [i |-> 1, retry_count |-> 0, max_retries |-> bound]
              /\ Record("batch", a)
    /\ UNCHANGED <<nodes, rels, nextId, mappings, saved_rels>>

\* The loop body is entered and session.run succeeds: break, next query.
RetriesSucceed ==
    /\ pc = "running" /\ WhileRetry(job.retry_count, job.max_retries)
    /\ LET G == ExecQuery(Graph, hist.queries[job.i])
       IN  nodes' = G.nodes /\ rels' = G.rels /\ nextId' = G.next
    /\ hist' = [hist EXCEPT !.log = Append(@, <<job.i, TRUE>>)]
    /\ job' = [job EXCEPT !.i = @ + 1, !.retry_count = 0]
    /\ pc' = IF job.i = Len(hist.queries) THEN "returned" ELSE "running"
    /\ UNCHANGED <<mappings, calls, last, saved_rels>>

\* The loop body is entered and session.run raises: raise at the bound, else
\* go round the loop.
RetriesFail ==
    /\ pc = "running" /\ WhileRetry(job.retry_count, job.max_retries)
    /\ Failures(hist.log) < MaxFailures
    /\ hist' = [hist EXCEPT !.log = Append(@, <<job.i, FALSE>>)]
    /\ job' = [job EXCEPT !.retry_count = @ + 1]
    /\ pc' = IF AfterFailure(job.retry_count + 1, job.max_retries) = "raise"
             THEN "raised" ELSE "running"
    /\ UNCHANGED <<nodes, rels, nextId, mappings, calls, last, saved_rels>>

\* The while condition is false: the for loop moves to the next query.
RetriesSkip ==
    /\ pc = "running" /\ ~WhileRetry(job.retry_count, job.max_retries)
    /\ job' = [job EXCEPT !.i = @ + 1, !.retry_count = 0]
    /\ pc' = IF job.i = Len(hist.queries) THEN "returned" ELSE "running"
    /\ UNCHANGED <<nodes, rels, nextId, mappings, calls, last, saved_rels, hist>>

NextRetries == RetriesBegin \/ RetriesSucceed \/ RetriesFail \/ RetriesSkip

SpecRetries == InitRetries /\ [][NextRetries]_vars

\* C27: a call with max_retries <= 0 makes no attempt at any query, leaves the
\* graph as it found it and does not raise; it returns once the list is walked.
C27_NoRetriesNoWork ==
    (pc # "idle" /\ job.max_retries <= 0) =>
        /\ hist.log = <<>>
        /\ Graph = hist.start
        /\ pc \in {"running", "returned"}
        /\ job.i <= Len(hist.queries) + 1
        /\ pc = "returned" <=> job.i = Len(hist.queries) + 1

\* C27 witness: a call with max_retries 0 returned with a list of several
\* queries unsent.
C27_Witness ==
    /\ pc = "returned"
    /\ job.max_retries = 0
    /\ Len(hist.queries) > 1
    /\ hist.log = <<>>
    /\ Graph = hist.start

\* C28 (as stated): the non-PR-scoped nodes the current branch held at the
\* keys of the batch are deleted whatever the verdict; a fact that is UNCHANGED
\* against a comparison branch other than the current one has no non-PR-scoped
\* node at its key in the current branch after the import; and a fact compared
\* against the current branch itself gets a node created whatever its hash.
C28_DeleteBeforeCompareAsStated ==
    ImportDone =>
        \A f \in FactItems(last.args.chunks) :
            LET b == last.args.branch
                c == ComparisonBranch(last.args)
            IN  /\ Unscoped(AtKey(last.pre.nodes, b, f.key)) \cap nodes = {}
                /\ (c # NULL /\ c # b /\ Verdict(f) = "UNCHANGED")
                      => Unscoped(AtKey(nodes, b, f.key)) = {}
                /\ c = b => AtKey(CreatedByLast, b, f.key) # {}

\* --------------------------------- the node step and the edge step, compared
\* The list import_changed_chunk_nodes_only hands to execute_queries_batch.
NodesOnlyQueries(a) ==
    SelectSeq(GenerateCypher(a.chunks, a.branch, a.batch_size, a.main, a.base, a.pr, a.deleted),
              NodeQueryFilter)

\* The list import_changed_chunk_relationships hands to execute_queries_batch:
\* generated without pull_request_id and without deleted_nodes.
RelationshipQueries(a) ==
    SelectSeq(GenerateCypher(a.chunks, a.branch, a.batch_size, a.main, a.base, NULL, <<>>),
              RelQueryFilter)

InitPartition ==
    /\ \E G \in InitGraphs : nodes = G.nodes /\ rels = G.rels /\ nextId = G.next
    /\ mappings = {}
    /\ calls = 0
    /\ last = NoCall
    /\ pc = "idle"
    /\ job = NoArgs
    /\ saved_rels = {}
    /\ hist = [nodes_only |-> <<>>, relationships |-> <<>>]

\* import_changed_chunk_nodes_only(...) followed by
\* import_changed_chunk_relationships(...) with the same branch arguments: as
\* given, or with base_branch defaulted as import_code_chunks does.
PartitionedImport ==
    /\ pc = "idle"
    /\ \E x \in ImportArgs, defaulted \in BOOLEAN :
          LET a == IF defaulted THEN [x EXCEPT !.base = DefaultBase(x.branch, x.base)] ELSE x
              G == ExecuteQueriesBatch(ExecuteQueriesBatch(Graph, NodesOnlyQueries(a)),
                                       RelationshipQueries(a))
          IN  /\ nodes' = G.nodes
              /\ rels' = G.rels
              /\ nextId' = G.next
              /\ hist' = [nodes_only |-> NodesOnlyQueries(a),
                          relationships |-> RelationshipQueries(a)]
              /\ Record("steps", a)
    /\ pc' = "returned"
    /\ UNCHANGED <<mappings, job, saved_rels>>

NextPartition == PartitionedImport

SpecPartition == InitPartition /\ [][NextPartition]_vars

\* C29: the queries of the node step followed by those of the edge step are
\* the list import_code_chunks_simple executes for the same arguments, each
\* query once and in the same order; tombstone, delete and create queries are
\* all in the node step, relationship queries all in the edge step; and the
\* two steps leave the graph import_code_chunks_simple leaves.
C29_StepsPartitionTheList ==
    last.op = "steps" =>
        LET a == last.args
            simple == GenerateCypher(a.chunks, a.branch, a.batch_size, a.main, a.base,
                                     a.pr, a.deleted)
        IN  /\ hist.nodes_only \o hist.relationships = simple
            /\ \A i \in DOMAIN hist.nodes_only :
                  hist.nodes_only[i].op \in {"tombstone", "delete_class", "delete_method", "create"}
            /\ \A i \in DOMAIN hist.relationships :
                  hist.relationships[i].op
                      \in {"call", "class_implement", "method_implement", "class_use", "method_use"}
            /\ Graph = ImportCodeChunksSimple(last.pre, a)

\* C29 witness: a pull-request import with a declared deletion whose list has
\* tombstone, delete, create and relationship queries.
C29_Witness ==
    /\ last.op = "steps"
    /\ \E i \in DOMAIN hist.nodes_only : hist.nodes_only[i].op = "tombstone"
    /\ \E i \in DOMAIN hist.nodes_only : hist.nodes_only[i].op = "create"
    /\ hist.relationships # <<>>
    /\ last.args.pr # NULL

\* C30: an import call (either mode) with no chunks and declared deletions
\* returns having created nothing: no node of the graph is new, and at the key
\* of every declared deletion the store holds the nodes it held before, so no
\* tombstone was added in any branch.
C30_DeletionsOnlyCreatesNothing ==
    (last.op \in {"simple", "facts"} /\ last.args.chunks = <<>> /\ last.args.deleted # <<>>) =>
        /\ CreatedByLast = {}
        /\ nextId = last.pre.next
        /\ \A d \in SeqToSet(last.args.deleted) :
              {n \in nodes : NodeKey(n) = DeletedKey(d)}
                 = {n \in last.pre.nodes : NodeKey(n) = DeletedKey(d)}

\* C30 witness: a deletions-only simple import on a branch that holds the
\* live node of the declared deletion: the node is still there, ACTIVE, and no
\* tombstone stands beside it.
C30_Witness ==
    /\ last.op = "simple"
    /\ last.args.chunks = <<>>
    /\ last.args.deleted = <<DeletedMB>>
    /\ \E n \in AtKey(nodes, last.args.branch, DeletedKey(DeletedMB)) : n.status = "ACTIVE"
    /\ \A n \in nodes : n.status # "DELETED"

====
